---------------------------- MODULE Spec2Model ----------------------------
(***************************************************************************)
(* A model of the water-levels server: the FluidDynamics solver            *)
(* (src/src/physics.rs), the Simulation controller (src/src/simulation.rs) *)
(* and the Protocol event loop (src/src/protocol.rs) wired to its feedback *)
(* channel as in handle_connection (src/src/main.rs).                      *)
(*                                                                         *)
(* Numbers.  The program computes in f64.  Here simulated time and levels  *)
(* are integers counted in hundredths (1 = 0.01 hour, 1 = 0.01 elevation   *)
(* unit), so DELTA_TIME = 0.05 is 5 and FORWARD_HOURS = 1000.0 is 100000.  *)
(* The diffusion coefficient 0.4 is 4 tenths.  Divisions round down.       *)
(* Wall-clock time is counted in milliseconds.                             *)
(***************************************************************************)
EXTENDS Integers, Sequences, FiniteSets, TLC

VARIABLES
  simulation,  \* Protocol.simulation: the Simulation struct
  pc,          \* where Protocol::run stands: "recv", "progress", "schedule", "parked"
               \* (in send_event, waiting for the feedback channel), or how it
               \* ended: "panicked", "failed" (returned an error), "returned" (Ok)
  cur,         \* the event bound by `match event` in Protocol::run, and where it came from
  progress,    \* the Event::Progress built by send_progress, waiting to be sent
  incoming,    \* incoming_messages: frames the client has sent, not yet pulled
  feedback,    \* the feedback channel: ticks enqueued, not yet pulled
  delayed,     \* the send_event_delayed tasks that are spawned and not finished
  outgoing,    \* outgoing_messages: Progress frames sent, not yet read by the client
  sent,        \* how many frames the client has sent so far
  lastCommand, \* history: the last of Start/Pause/Resume/Forward that was processed
  op,          \* history: the last Simulation method called directly, and the hours
               \* it was given (SpecSim only)
  emitted,     \* history: the Progress frames with running = true sent since the last Start
  water_flow,  \* a WaterFlow struct, on its own (SpecFlow only)
  rains        \* history: how often rain was called on water_flow (SpecFlow only)

vars == <<simulation, pc, cur, progress, incoming, feedback, delayed, outgoing,
          sent, lastCommand, op, emitted,
         water_flow, rains>>

---------------------------------------------------------------------------
(* Program constants *)

DELTA_TIME == 5

FORWARD_HOURS == 100000

STEP_DELAY_MILLIS == 200

FEEDBACK_CHANNEL_SIZE == 1024

DEFAULT_DIFFUSION == 4

DIFFUSE_ITERATIONS == 20

(* Bounds of the model *)

MaxClientFrames == 3

MaxIncoming == 1

MaxOutgoing == 2

MaxHours == 12

MillisPerTick == 100
\* the top of the root sink: u32::MAX in the code, here a height that no rain of the
\* model reaches
SegmentLevel_MAX == 1000000

\* how often rain is called on one WaterFlow
MaxRains == 2
\* the longest and the highest of the enumerated landscapes
FlowMaxLen == 3

FlowMaxLevel == 2

\* the epsilon of the tests' assert_slice_approx_eq_with_epsilon, in hundredths
LevelTolerance == 10

---------------------------------------------------------------------------
(* Helpers *)

Min(a, b) == IF a < b THEN a ELSE b

\* f64::clamp: asserts min <= max, then bounds the value
clamp(x, min, max) == IF x < min THEN min ELSE IF x > max THEN max ELSE x

clamp_panics(min, max) == ~(min <= max)

Remove(seq, i) == [j \in 1..(Len(seq) - 1) |-> IF j < i THEN seq[j] ELSE seq[j + 1]]

---------------------------------------------------------------------------
(* FluidDynamics (physics.rs).  A grid of size + 2 cells; Rust index i is  *)
(* sequence index i + 1.                                                   *)

Zeros(n) == [i \in 1..n |-> 0]

FluidDynamics_default ==
  [size |-> 0, density |-> Zeros(2), density0 |-> Zeros(2), diffusion |-> DEFAULT_DIFFUSION]

set_density(fd, density) ==
  LET size == Len(density)
      grid_size == size + 2
  IN [fd EXCEPT !.size = size,
                !.density = [i \in 1..grid_size |->
                               IF i >= 2 /\ i <= size + 1 THEN density[i - 1] ELSE 0],
                !.density0 = Zeros(grid_size)]

get_density(fd) == [i \in 1..fd.size |-> fd.density[i + 1]]

add_density(fd, value) ==
  [fd EXCEPT !.density = [i \in 1..Len(fd.density) |-> fd.density[i] + value]]

set_boundaries(size, x) ==
  LET x1 == [x EXCEPT ![1] = x[2]]
  IN [x1 EXCEPT ![size + 2] = x1[size + 1]]

\* one pass of `for i in 1..=size`, from Rust index i on:
\* x[i] = (x0[i] + a * (x[i-1] + x[i+1])) / (1 + 2a), a = delta_time * diffusion * size,
\* with a = a_num / 1000 in the model's units
RECURSIVE diffuse_sweep(_, _, _, _, _)
diffuse_sweep(size, x, x0, a_num, i) ==
  IF i > size \/ i + 2 > Len(x) THEN x
  ELSE diffuse_sweep(size,
         [x EXCEPT ![i + 1] = (1000 * x0[i + 1] + a_num * (x[i] + x[i + 2]))
                                \div (1000 + 2 * a_num)],
         x0, a_num, i + 1)

RECURSIVE diffuse_iterate(_, _, _, _, _)
diffuse_iterate(size, x, x0, a_num, n) ==
  IF n = 0 \/ Len(x) < size + 2 THEN x
  ELSE diffuse_iterate(size, set_boundaries(size, diffuse_sweep(size, x, x0, a_num, 1)),
                       x0, a_num, n - 1)

diffuse(size, x, x0, diffusion, delta_time) ==
  diffuse_iterate(size, x, x0, delta_time * diffusion * size, DIFFUSE_ITERATIONS)

swap_density_buffers(fd) == [fd EXCEPT !.density = fd.density0, !.density0 = fd.density]

FluidDynamics_step(fd, delta_time) ==
  swap_density_buffers(
    [fd EXCEPT !.density0 = diffuse(fd.size, fd.density0, fd.density, fd.diffusion, delta_time)])

---------------------------------------------------------------------------
(* Simulation (simulation.rs) *)

Simulation_new ==
  [hours |-> 0, landscape |-> <<>>, running |-> FALSE, fast_forward |-> FALSE,
   delta_time |-> DELTA_TIME, time |-> 0, fluid_dynamics |-> FluidDynamics_default]

is_running(s) == s.running

is_fast_forward(s) == s.fast_forward

is_finished(s) == s.time >= s.hours

get_time(s) == s.time

get_levels(s) == get_density(s.fluid_dynamics)

\* start as it would be if it left the fast-forward mode as it found it
start_KeepsFastForward(s, landscape, hours) ==
  [s EXCEPT !.hours = hours, !.landscape = landscape, !.running = TRUE, !.time = 0,
            !.fluid_dynamics = set_density(s.fluid_dynamics, landscape)]

start(s, landscape, hours) ==
  [s EXCEPT !.hours = hours, !.landscape = landscape, !.running = TRUE,
            !.fast_forward = FALSE, !.time = 0,
            !.fluid_dynamics = set_density(s.fluid_dynamics, landscape)]

\* pause as it would be if it stayed in the fast-forward mode
pause_KeepsFastForward(s) == [s EXCEPT !.running = FALSE]

\* pause as it would be if it only left the fast-forward mode
pause_KeepsRunning(s) == [s EXCEPT !.fast_forward = FALSE]

pause(s) == [s EXCEPT !.running = FALSE, !.fast_forward = FALSE]

\* resume as it would be if it began the run again
resume_Restarts(s) == [s EXCEPT !.running = TRUE, !.fast_forward = FALSE, !.time = 0]

\* resume as it would be if it did not look at the time
resume_AlwaysRuns(s) == [s EXCEPT !.running = TRUE, !.fast_forward = FALSE]

resume(s) == [s EXCEPT !.running = ~is_finished(s), !.fast_forward = FALSE]

\* step panics in its first statement when clamp's assertion min <= max fails
step_panics(s) == clamp_panics(0, s.hours)

\* step as it would be if it always advanced by a whole delta_time
step_AlwaysFullTick(s) ==
  LET s1 == [s EXCEPT !.time = s.time + s.delta_time,
                      !.fluid_dynamics =
                        FluidDynamics_step(add_density(s.fluid_dynamics, s.delta_time),
                                           s.delta_time)]
  IN [s1 EXCEPT !.running = ~is_finished(s1)]

step(s) ==
  LET remaining_time == clamp(s.hours - s.time, 0, s.hours)
      delta_time == Min(s.delta_time, remaining_time)
      s1 == [s EXCEPT !.time = s.time + delta_time,
                      !.fluid_dynamics =
                        FluidDynamics_step(add_density(s.fluid_dynamics, delta_time), delta_time)]
  IN [s1 EXCEPT !.running = ~is_finished(s1)]

\* start_forward as it would be if it did not look at the time
start_forward_Unconditional(s) == [s EXCEPT !.fast_forward = TRUE, !.running = TRUE]

\* start_forward as it would be if it did not wake a paused simulation
start_forward_OnlyIfRunning(s) ==
  [s EXCEPT !.fast_forward = s.running /\ ~is_finished(s),
            !.running = s.running /\ ~is_finished(s)]

start_forward(s) == [s EXCEPT !.fast_forward = ~is_finished(s), !.running = ~is_finished(s)]

\* the condition of forward's while loop as it would be if it ignored the chunk
forward_continues_IgnoresChunk(s, start_time, hours) == ~is_finished(s)

\* the condition of forward's while loop
forward_continues(s, start_time, hours) ==
  ~is_finished(s) /\ get_time(s) - start_time < hours

\* at most n iterations of `while !finished && time - start < hours { step() }`; the
\* first half of them, then, when the loop is not over, the rest (the halving keeps the
\* evaluation of a chunk of 20000 ticks shallow)
RECURSIVE forward_loop(_, _, _, _)
forward_loop(s, start_time, hours, n) ==
  IF n <= 1
  THEN IF forward_continues(s, start_time, hours) /\ ~step_panics(s) THEN step(s) ELSE s
  ELSE LET half == forward_loop(s, start_time, hours, n \div 2)
       IN IF forward_continues(half, start_time, hours) /\ ~step_panics(half)
          THEN forward_loop(half, start_time, hours, n - n \div 2)
          ELSE half

\* forward as it would be if it made a single step
forward_OneStep(s, hours) ==
  IF forward_continues(s, get_time(s), hours) /\ ~step_panics(s) THEN step(s) ELSE s

\* every iteration but the last adds delta_time, so the loop is over after
\* hours / delta_time iterations, rounded up
forward(s, hours) ==
  forward_loop(s, get_time(s), hours,
               IF hours > 0 THEN hours \div s.delta_time + 1 ELSE 1)

\* forward panics when a step it calls does: step panics or not by hours alone, which
\* no step changes, so that is the first step
forward_panics(s, hours) ==
  forward_continues(s, get_time(s), hours) /\ step_panics(s)

---------------------------------------------------------------------------
(* WaterFlow (water_flow.rs): the hierarchy of sinks of a landscape and    *)
(* the rain over it.  A segment level is a u32 and an index counts from 1; *)
(* every f64 is kept in hundredths, a weight and a proportion in           *)
(* ten-thousandths, and a division rounds down.                            *)

\* enum Area
Boundary ==
  [kind |-> "Boundary", start |-> 0, end |-> 0, bottom |-> 0, length |-> 0, sinks |-> 0]

AreaSink(first, end, bottom) ==
  [kind |-> "Sink", start |-> first, end |-> end, bottom |-> bottom, length |-> 0,
   sinks |-> 0]

AreaPlain(first, length, sinks) ==
  [kind |-> "Plain", start |-> first, end |-> 0, bottom |-> 0, length |-> length,
   sinks |-> sinks]

\* Area::width, in hundredths
Area_width(a) ==
  CASE a.kind = "Boundary" -> 0
    [] a.kind = "Plain" -> (a.length * 100) \div a.sinks
    [] a.kind = "Sink" -> (a.end - a.start + 1) * 100

RECURSIVE fold_sum(_)
\* .fold(0.0, |accum, x| accum + x)
fold_sum(seq) == IF seq = <<>> THEN 0 ELSE seq[1] + fold_sum(Tail(seq))

\* Sink::new
Sink_new(weight, first, end, top, bottom, children) ==
  LET width == end - first + 1
      capacity == width * (top - bottom) * 100
      children_capacity ==
        fold_sum([i \in 1..Len(children) |-> children[i].total_capacity])
  IN  [weight |-> weight, start |-> first, end |-> end, top |-> top, bottom |-> bottom,
       capacity |-> capacity, total_capacity |-> capacity + children_capacity,
       water |-> 0, children |-> children]

\* Sink::is_full
is_full(sink) == sink.water >= sink.capacity

\* Sink::width
Sink_width(sink) == sink.end - sink.start + 1

RECURSIVE total_water(_)
\* Sink::total_water
total_water(sink) ==
  sink.water
    + fold_sum([i \in 1..Len(sink.children) |-> total_water(sink.children[i])])

RECURSIVE plain_end(_, _, _, _)
\* the while of scan_plain: the first index past the plain
plain_end(landscape, index, end, level) ==
  IF index <= end /\ landscape[index] = level
  THEN plain_end(landscape, index + 1, end, level)
  ELSE index

\* scan_plain: the area, and the index it leaves
scan_plain(landscape, index, end, level) ==
  LET stop == plain_end(landscape, index, end, level)
      length == stop - index
  IN  [area |-> IF length = 0 THEN Boundary ELSE AreaPlain(index, length, 0),
       index |-> stop]

RECURSIVE sink_end(_, _, _, _, _)
\* the while of scan_sink: the first index past the sink, and the highest level in it
sink_end(landscape, index, end, level, bottom) ==
  IF index <= end /\ landscape[index] < level
  THEN sink_end(landscape, index + 1, end, level,
                IF landscape[index] > bottom THEN landscape[index] ELSE bottom)
  ELSE [index |-> index, bottom |-> bottom]

\* scan_sink: the area, and the index it leaves
scan_sink(landscape, index, end, level) ==
  LET stop == sink_end(landscape, index, end, level, 0)
  IN  [area |-> IF index = stop.index THEN Boundary
                ELSE AreaSink(index, stop.index - 1, stop.bottom),
       index |-> stop.index]

\* push_area as it would be if a plain were counted in full for each sink next to it
push_area_PlainNotShared(areas, area) ==
  LET last_area == areas[Len(areas)]
  IN  CASE area.kind = "Boundary" -> areas
        [] area.kind # "Boundary" /\ last_area.kind = "Boundary" -> Append(areas, area)
        [] last_area.kind = "Plain" /\ area.kind = "Sink" ->
             Append([areas EXCEPT ![Len(areas)].sinks = 1], area)
        [] last_area.kind = "Sink" /\ area.kind = "Plain" ->
             Append(areas, AreaPlain(area.start, area.length, 1))
        [] OTHER -> areas

\* push_area
push_area(areas, area) ==
  LET last_area == areas[Len(areas)]
  IN  CASE area.kind = "Boundary" -> areas
        [] area.kind # "Boundary" /\ last_area.kind = "Boundary" -> Append(areas, area)
        [] last_area.kind = "Plain" /\ area.kind = "Sink" ->
             Append([areas EXCEPT ![Len(areas)].sinks = @ + 1], area)
        [] last_area.kind = "Sink" /\ area.kind = "Plain" ->
             Append(areas, AreaPlain(area.start, area.length, 1))
        [] OTHER -> areas

RECURSIVE scan_areas_loop(_, _, _, _, _)
\* the while of scan_areas
scan_areas_loop(landscape, index, end, level, areas) ==
  IF index <= end
  THEN LET scanned == IF landscape[index] = level
                      THEN scan_plain(landscape, index, end, level)
                      ELSE scan_sink(landscape, index, end, level)
       IN  scan_areas_loop(landscape, scanned.index, end, level,
                           push_area(areas, scanned.area))
  ELSE areas

\* scan_areas
scan_areas(landscape, first, end, level) ==
  Append(scan_areas_loop(landscape, first, end, level, <<Boundary>>), Boundary)

\* calculate_sink_weight, in ten-thousandths (total_width in hundredths)
calculate_sink_weight(areas, index, total_width) ==
  LET left_width == Area_width(areas[index - 1])
      right_width == Area_width(areas[index + 1])
      width == Area_width(areas[index]) + left_width + right_width
  IN  (width * 10000) \div total_width

RECURSIVE build_sinks_hierarchy(_, _, _, _)
RECURSIVE build_sinks_loop(_, _, _, _, _, _, _)
\* the for of build_sinks_hierarchy as it would be if a sink's top were its own bottom
build_sinks_loop_TopIsOwnBottom(landscape, areas, index, level, total_width, sinks, total_weight) ==
  IF index > Len(areas) - 1
  THEN [sinks |-> sinks, total_weight |-> total_weight]
  ELSE IF areas[index].kind = "Sink"
       THEN LET weight == calculate_sink_weight(areas, index, total_width)
                children == build_sinks_hierarchy(landscape, areas[index].start,
                                                  areas[index].end, areas[index].bottom)
                sink == Sink_new(weight, areas[index].start, areas[index].end,
                                 areas[index].bottom, areas[index].bottom, children)
            IN  build_sinks_loop(landscape, areas, index + 1, level, total_width,
                                 Append(sinks, sink), total_weight + weight)
       ELSE build_sinks_loop(landscape, areas, index + 1, level, total_width, sinks,
                             total_weight)

\* the for of build_sinks_hierarchy: the sinks and their total weight
build_sinks_loop(landscape, areas, index, level, total_width, sinks, total_weight) ==
  IF index > Len(areas) - 1
  THEN [sinks |-> sinks, total_weight |-> total_weight]
  ELSE IF areas[index].kind = "Sink"
       THEN LET weight == calculate_sink_weight(areas, index, total_width)
                children == build_sinks_hierarchy(landscape, areas[index].start,
                                                  areas[index].end, areas[index].bottom)
                sink == Sink_new(weight, areas[index].start, areas[index].end, level,
                                 areas[index].bottom, children)
            IN  build_sinks_loop(landscape, areas, index + 1, level, total_width,
                                 Append(sinks, sink), total_weight + weight)
       ELSE build_sinks_loop(landscape, areas, index + 1, level, total_width, sinks,
                             total_weight)

\* build_sinks_hierarchy
build_sinks_hierarchy(landscape, first, end, level) ==
  LET areas == scan_areas(landscape, first, end, level)
      total_width == (end - first + 1) * 100
      built == build_sinks_loop(landscape, areas, 2, level, total_width, <<>>, 0)
  IN  IF built.sinks # <<>> /\ built.total_weight < 10000
      THEN [built.sinks EXCEPT ![1].weight = @ + (10000 - built.total_weight)]
      ELSE built.sinks

\* landscape.iter().cloned().max()
max_level(landscape) ==
  CHOOSE m \in {landscape[i] : i \in 1..Len(landscape)} :
    \A i \in 1..Len(landscape) : landscape[i] <= m

\* WaterFlow::new; root_sink is <<>> for None and <<sink>> for Some(sink)
WaterFlow_new(landscape) ==
  [landscape |-> landscape,
   water |-> Zeros(Len(landscape)),
   root_sink |->
     IF landscape # <<>>
     THEN LET end == Len(landscape)
              bottom == max_level(landscape)
              children == build_sinks_hierarchy(landscape, 1, end, bottom)
          IN  <<Sink_new(10000, 1, end, SegmentLevel_MAX, bottom, children)>>
     ELSE <<>>]

\* WaterFlow::total_levels, in hundredths
total_levels(wf) ==
  [i \in 1..Len(wf.landscape) |-> wf.landscape[i] * 100 + wf.water[i]]

RECURSIVE sqrt_between(_, _, _)
\* the largest r in lo..hi with r * r <= n
sqrt_between(n, lo, hi) ==
  IF lo >= hi
  THEN lo
  ELSE LET mid == (lo + hi + 1) \div 2
       IN  IF mid * mid <= n THEN sqrt_between(n, mid, hi) ELSE sqrt_between(n, lo, mid - 1)

\* f64::sqrt of a square of ten-thousandths
sqrt(n) == sqrt_between(n, 0, 20000)

\* spilled_amount
spilled_amount(sink_excess, left_capacity, right_capacity) ==
  LET left_proportion == (Min(sink_excess, left_capacity) * 10000) \div sink_excess
      right_proportion == (Min(sink_excess, right_capacity) * 10000) \div sink_excess
      modulo == sqrt(left_proportion * left_proportion + right_proportion * right_proportion)
  IN  <<(sink_excess * left_proportion) \div modulo,
        (sink_excess * right_proportion) \div modulo>>

RECURSIVE spill_capacity_loop(_, _, _)
\* the while of find_spill_capacity
spill_capacity_loop(sinks, index, direction) ==
  IF index >= 1 /\ index <= Len(sinks)
  THEN (sinks[index].total_capacity - total_water(sinks[index]))
         + spill_capacity_loop(sinks, index + direction, direction)
  ELSE 0

\* find_spill_capacity
find_spill_capacity(sinks, index, direction) ==
  spill_capacity_loop(sinks, index + direction, direction)

RECURSIVE fill_sink_with_water(_, _)
RECURSIVE fill_downstream_loop(_, _, _, _, _, _, _)
RECURSIVE spill_excess_loop(_, _, _, _)
RECURSIVE spill_water_loop(_, _, _, _, _)
RECURSIVE spill_water(_, _, _, _)

\* the for of fill_downstream_sinks_with_water
fill_downstream_loop(children, amount, index, excess, filled, total_excess, error) ==
  IF index > Len(children)
  THEN [children |-> children, excess |-> excess, total_filled |-> filled,
        total_excess |-> total_excess]
  ELSE IF ~is_full(children[index])
       THEN LET quota == (amount * children[index].weight) \div 10000 + error
                child == fill_sink_with_water(children[index], quota)
                sink_excess == quota - child.filled
            IN  fill_downstream_loop([children EXCEPT ![index] = child.sink], amount,
                                     index + 1, [excess EXCEPT ![index] = sink_excess],
                                     filled + child.filled,
                                     total_excess + sink_excess, 0)
       ELSE fill_downstream_loop(children, amount, index + 1, excess, filled,
                                 total_excess, error)

\* fill_downstream_sinks_with_water
fill_downstream_sinks_with_water(sink, amount) ==
  LET total_quota ==
        fold_sum([i \in 1..Len(sink.children) |->
                    (amount * sink.children[i].weight) \div 10000])
      quota_error == amount - total_quota
  IN  fill_downstream_loop(sink.children, amount, 1, Zeros(Len(sink.children)), 0, 0,
                           quota_error)

\* the for of spill_excess_water_through_sinks
spill_excess_loop(children, excess, index, total_spilled) ==
  IF index > Len(excess)
  THEN [children |-> children, excess |-> excess, total_spilled |-> total_spilled]
  ELSE IF excess[index] > 0
       THEN LET left_capacity == find_spill_capacity(children, index, 0 - 1)
                right_capacity == find_spill_capacity(children, index, 1)
            IN  IF left_capacity + right_capacity > 0
                THEN LET water == spilled_amount(excess[index], left_capacity,
                                                 right_capacity)
                         left == spill_water(children, index, 0 - 1, water[1])
                         right == spill_water(left.sinks, index, 1, water[2])
                         spilled == left.total_spilled + right.total_spilled
                     IN  spill_excess_loop(right.sinks,
                                           [excess EXCEPT ![index] = @ - spilled],
                                           index + 1, total_spilled + spilled)
                ELSE spill_excess_loop(children, excess, index + 1, total_spilled)
       ELSE spill_excess_loop(children, excess, index + 1, total_spilled)

\* spill_excess_water_through_sinks as it would be if no excess were ever spilled to the
\* sibling sinks
spill_excess_water_Never(excess, total_excess, sink) ==
  [children |-> sink.children, excess |-> excess, total_spilled |-> 0]

\* spill_excess_water_through_sinks
spill_excess_water_through_sinks(excess, total_excess, sink) ==
  IF total_excess > 0 /\ Len(sink.children) > 1
  THEN spill_excess_loop(sink.children, excess, 1, 0)
  ELSE [children |-> sink.children, excess |-> excess, total_spilled |-> 0]

\* the while of spill_water
spill_water_loop(sinks, index, direction, amount, total_spilled) ==
  IF amount > 0 /\ index >= 1 /\ index <= Len(sinks)
  THEN LET sink == sinks[index]
       IN  IF sink.total_capacity - total_water(sink) > 0
           THEN LET spilled ==
                      IF sink.children = <<>>
                      THEN fill_sink_with_water(sink, amount)
                      ELSE LET from == IF direction = 0 - 1
                                       THEN Len(sink.children) + 1 ELSE 0
                               down == spill_water(sink.children, from, direction, amount)
                               own == fill_sink_with_water(
                                        [sink EXCEPT !.children = down.sinks],
                                        amount - down.total_spilled)
                           IN  [sink |-> own.sink,
                                filled |-> own.filled + down.total_spilled]
                IN  spill_water_loop([sinks EXCEPT ![index] = spilled.sink],
                                     index + direction, direction,
                                     amount - spilled.filled,
                                     total_spilled + spilled.filled)
           ELSE spill_water_loop(sinks, index + direction, direction, amount,
                                 total_spilled)
  ELSE [sinks |-> sinks, total_spilled |-> total_spilled]

\* spill_water
spill_water(sinks, index, direction, amount) ==
  spill_water_loop(sinks, index + direction, direction, amount, 0)

\* fill_sink_with_water: the sink afterwards, and the amount it took
fill_sink_with_water(sink, amount) ==
  LET down == fill_downstream_sinks_with_water(sink, amount)
      spill == spill_excess_water_through_sinks(down.excess, down.total_excess,
                                                [sink EXCEPT !.children = down.children])
      children_amount == down.total_filled + spill.total_spilled
      remaining == amount - children_amount
      sink_amount == Min(sink.capacity - sink.water, remaining)
  IN  [sink |-> [sink EXCEPT !.children = spill.children, !.water = @ + sink_amount],
       filled |-> children_amount + sink_amount]

RECURSIVE flood_water_to_landscape(_, _, _)
RECURSIVE flood_children(_, _, _, _)
\* the for over the children in flood_water_to_landscape
flood_children(terrain, water, children, index) ==
  IF index > Len(children)
  THEN [water |-> water, children |-> children]
  ELSE LET child == flood_water_to_landscape(terrain, water, children[index])
       IN  flood_children(terrain, child.water, [children EXCEPT ![index] = child.sink],
                          index + 1)

\* flood_water_to_landscape: the water levels and the sink afterwards
flood_water_to_landscape(terrain, water, sink) ==
  LET below == flood_children(terrain, water, sink.children, 1)
  IN  IF sink.water > 0
      THEN LET segment_amount == sink.water \div Sink_width(sink)
               remaining == sink.water - Sink_width(sink) * segment_amount
               flooded == [i \in 1..Len(water) |->
                             IF i >= sink.start /\ i <= sink.end
                             THEN below.water[i] + segment_amount
                             ELSE below.water[i]]
               lower == CHOOSE i \in sink.start..sink.end :
                          \A j \in sink.start..sink.end :
                            /\ terrain[i] * 100 + flooded[i] <= terrain[j] * 100 + flooded[j]
                            /\ terrain[i] * 100 + flooded[i] = terrain[j] * 100 + flooded[j]
                                 => i <= j
           IN  [water |-> IF remaining > 0
                          THEN [flooded EXCEPT ![lower] = @ + remaining]
                          ELSE flooded,
                sink |-> [sink EXCEPT !.water = 0, !.children = below.children]]
      ELSE [water |-> below.water, sink |-> [sink EXCEPT !.children = below.children]]

\* rain as it would be if the rain of one segment were poured over the whole landscape
rain_OfOneSegment(wf, hours) ==
  IF wf.root_sink # <<>>
  THEN LET filled == fill_sink_with_water(wf.root_sink[1], hours)
           flooded == flood_water_to_landscape(wf.landscape, Zeros(Len(wf.landscape)),
                                               filled.sink)
       IN  [wf EXCEPT !.water = flooded.water, !.root_sink = <<flooded.sink>>]
  ELSE wf

\* WaterFlow::rain
rain(wf, hours) ==
  IF wf.root_sink # <<>>
  THEN LET amount == Len(wf.landscape) * hours
           filled == fill_sink_with_water(wf.root_sink[1], amount)
           flooded == flood_water_to_landscape(wf.landscape, Zeros(Len(wf.landscape)),
                                               filled.sink)
       IN  [wf EXCEPT !.water = flooded.water, !.root_sink = <<flooded.sink>>]
  ELSE wf

---------------------------------------------------------------------------

(* Events (protocol.rs, enum Event) and frames *)

Event(type) == [type |-> type, landscape |-> <<>>, hours |-> 0]

StartEvent(landscape, hours) == [type |-> "Start", landscape |-> landscape, hours |-> hours]

NoEvent == [ev |-> Event("None"), src |-> "none", stale |-> FALSE]

\* a tick on its way to the feedback channel: the event, the delay it was scheduled
\* with, how long it has waited, and (history) whether a Pause was processed since
Tick(type, delay_millis) ==
  [ev |-> Event(type), delay |-> delay_millis, waited |-> 0, stale |-> FALSE]

Landscapes == {<<>>, <<100, 400>>}

Hours == {0 - DELTA_TIME, 0, DELTA_TIME, MaxHours}

\* the Start events of the model: every duration over the two-segment landscape, and
\* the longest one over the empty landscape
StartEvents ==
  {StartEvent(<<100, 400>>, h) : h \in Hours} \cup {StartEvent(<<>>, MaxHours)}

\* what a client can put on the wire: any Event as JSON, or a frame that does not decode
ClientFrames ==
  StartEvents
    \cup {Event(t) : t \in {"Pause", "Resume", "Forward", "Step", "ForwardStep",
                            "Progress", "Undecodable"}}

\* event_from_message: None for a frame that is no Event
event_from_message(frame) == frame.type # "Undecodable"

\* the end of the inbound stream: the client has closed the connection, and the stream
\* yields None once the frames sent before have been read
EndOfStream == Event("Close")

\* the client has closed the connection
InboundClosed == incoming # <<>> /\ incoming[Len(incoming)] = EndOfStream

\* the inbound stream has ended: select_all drops it and goes on with the feedback channel
InboundEnded == incoming # <<>> /\ Head(incoming) = EndOfStream

MarkStale(ticks) == [i \in 1..Len(ticks) |-> [ticks[i] EXCEPT !.stale = TRUE]]

---------------------------------------------------------------------------
(* Protocol::run *)

Init ==
  /\ simulation = Simulation_new
  /\ pc = "recv"
  /\ cur = NoEvent
  /\ progress = [running |-> FALSE, time |-> 0, levels |-> <<>>]
  /\ incoming = <<>>
  /\ feedback = <<>>
  /\ delayed = <<>>
  /\ outgoing = <<>>
  /\ sent = 0
  /\ lastCommand = "none"
  /\ op = [name |-> "none", hours |-> 0]
  /\ emitted = 0
  /\ water_flow = WaterFlow_new(<<>>)
  /\ rains = 0

\* make_progress as it would be if the Progress were built before the arm's call on the
\* simulation
make_progress_BeforeMutation(s) ==
  [running |-> is_running(simulation), time |-> get_time(simulation),
   levels |-> get_levels(simulation)]

\* send_progress, up to its await: the Progress of the simulation as it is now
make_progress(s) ==
  [running |-> is_running(s), time |-> get_time(s), levels |-> get_levels(s)]

\* the guards as they would be if they did not look at fast_forward
StepGuard_IgnoresFastForward(s) == is_running(s)

ForwardStepGuard_IgnoresFastForward(s) == is_running(s)

\* the guards of the Step and ForwardStep arms
StepGuard(s) == is_running(s) /\ ~is_fast_forward(s)

ForwardStepGuard(s) == is_running(s) /\ is_fast_forward(s)

\* whether the match arm taken for event e ends in send_progress
Handled(e, s) ==
  \/ e.type \in {"Start", "Forward", "Pause", "Resume"}
  \/ e.type = "Step" /\ StepGuard(s)
  \/ e.type = "ForwardStep" /\ ForwardStepGuard(s)

\* whether the arm taken for event e panics before it sends anything
Panics(e, s) ==
  \/ e.type = "Step" /\ StepGuard(s) /\ step_panics(s)
  \/ e.type = "ForwardStep" /\ ForwardStepGuard(s) /\ forward_panics(s, FORWARD_HOURS)

\* the simulation after the arm's call on it
Mutate(e, s) ==
  CASE e.type = "Start" -> start(s, e.landscape, e.hours)
    [] e.type = "Step" /\ StepGuard(s) -> step(s)
    [] e.type = "Forward" -> start_forward(s)
    [] e.type = "ForwardStep" /\ ForwardStepGuard(s) -> forward(s, FORWARD_HOURS)
    [] e.type = "Pause" -> pause(s)
    [] e.type = "Resume" -> resume(s)
    [] OTHER -> s

\* the match on the pulled event, up to the first await of the arm
Handle(e, src, stale, rest_feedback) ==
  /\ cur' = [ev |-> e, src |-> src, stale |-> stale]
  /\ IF Panics(e, simulation)
     THEN /\ pc' = "panicked"
          /\ UNCHANGED <<simulation, progress, lastCommand, emitted>>
          /\ feedback' = rest_feedback
          /\ UNCHANGED delayed
     ELSE /\ simulation' = Mutate(e, simulation)
          /\ pc' = IF Handled(e, simulation) THEN "progress" ELSE "recv"
          /\ progress' = IF Handled(e, simulation) THEN make_progress(simulation') ELSE progress
          /\ lastCommand' = IF e.type \in {"Start", "Pause", "Resume", "Forward"}
                            THEN e.type ELSE lastCommand
          /\ feedback' = IF e.type = "Pause" THEN MarkStale(rest_feedback) ELSE rest_feedback
          /\ delayed' = IF e.type = "Pause" THEN MarkStale(delayed) ELSE delayed
          /\ emitted' = IF e.type = "Start" THEN 0 ELSE emitted

\* RecvIncoming as it would be if the merge polled the inbound stream only when the
\* feedback channel had nothing to give
RecvIncoming_AfterFeedback ==
  /\ pc = "recv"
  /\ feedback = <<>>
  /\ incoming # <<>>
  /\ ~InboundEnded
  /\ event_from_message(Head(incoming))
  /\ incoming' = Tail(incoming)
  /\ Handle(Head(incoming), "client", FALSE, feedback)
  /\ UNCHANGED <<outgoing, sent, op, water_flow, rains>>

\* multiplexed_events.next() yields a decoded client event
RecvIncoming ==
  /\ pc = "recv"
  /\ incoming # <<>>
  /\ ~InboundEnded
  /\ event_from_message(Head(incoming))
  /\ incoming' = Tail(incoming)
  /\ Handle(Head(incoming), "client", FALSE, feedback)
  /\ UNCHANGED <<outgoing, sent, op, water_flow, rains>>

\* DropFrame as it would be if a frame that does not decode ended run with the error
DropFrame_Fatal ==
  /\ pc = "recv"
  /\ incoming # <<>>
  /\ ~InboundEnded
  /\ ~event_from_message(Head(incoming))
  /\ incoming' = Tail(incoming)
  /\ pc' = "failed"
  /\ UNCHANGED <<simulation, cur, progress, feedback, delayed, outgoing, sent,
                 lastCommand, op, water_flow, rains, emitted>>

\* filter_map(event_from_try_message) drops a frame that does not decode
DropFrame ==
  /\ pc = "recv"
  /\ incoming # <<>>
  /\ ~InboundEnded
  /\ ~event_from_message(Head(incoming))
  /\ incoming' = Tail(incoming)
  /\ UNCHANGED <<simulation, pc, cur, progress, feedback, delayed, outgoing, sent,
                 lastCommand, op, water_flow, rains, emitted>>

\* multiplexed_events.next() yields a tick of the feedback channel
RecvFeedback ==
  /\ pc = "recv"
  /\ feedback # <<>>
  /\ Handle(Head(feedback).ev, "feedback", Head(feedback).stale, Tail(feedback))
  /\ UNCHANGED <<incoming, outgoing, sent, op, water_flow, rains>>

\* Schedules as it would be if Resume enqueued its Step only for a running simulation
Schedules_ResumeOnlyIfRunning(e, s) ==
  CASE e.type = "Start" -> "delayed"
    [] e.type = "Step" -> IF ~is_finished(s) THEN "delayed" ELSE "none"
    [] e.type = "Forward" -> "immediate"
    [] e.type = "ForwardStep" -> IF ~is_finished(s) THEN "immediate" ELSE "none"
    [] e.type = "Resume" -> IF is_running(s) THEN "immediate" ELSE "none"
    [] OTHER -> "none"

\* Schedules as it would be if Forward enqueued its ForwardStep only when not finished
Schedules_ForwardOnlyIfUnfinished(e, s) ==
  CASE e.type = "Start" -> "delayed"
    [] e.type = "Step" -> IF ~is_finished(s) THEN "delayed" ELSE "none"
    [] e.type \in {"Forward", "ForwardStep"} -> IF ~is_finished(s) THEN "immediate" ELSE "none"
    [] e.type = "Resume" -> "immediate"
    [] OTHER -> "none"

\* Schedules as it would be if the Step arm never spawned the next delayed Step
Schedules_StepNeverReschedules(e, s) ==
  CASE e.type = "Start" -> "delayed"
    [] e.type = "Forward" -> "immediate"
    [] e.type = "ForwardStep" -> IF ~is_finished(s) THEN "immediate" ELSE "none"
    [] e.type = "Resume" -> "immediate"
    [] OTHER -> "none"

\* what the arm of event e does after send_progress: "delayed", "immediate" or "none"
Schedules(e, s) ==
  CASE e.type = "Start" -> "delayed"
    [] e.type = "Step" -> IF ~is_finished(s) THEN "delayed" ELSE "none"
    [] e.type = "Forward" -> "immediate"
    [] e.type = "ForwardStep" -> IF ~is_finished(s) THEN "immediate" ELSE "none"
    [] e.type = "Resume" -> "immediate"
    [] OTHER -> "none"

\* the tick the arm of event e schedules
ScheduledTick(e) ==
  CASE e.type \in {"Start", "Step"} -> Tick("Step", STEP_DELAY_MILLIS)
    [] e.type \in {"Forward", "ForwardStep"} -> Tick("ForwardStep", 0)
    [] OTHER -> Tick("Step", 0)

\* send_progress completes: the frame is on the outbound stream
SendProgress ==
  /\ pc = "progress"
  /\ Len(outgoing) < MaxOutgoing
  /\ outgoing' = Append(outgoing, progress)
  /\ pc' = IF Schedules(cur.ev, simulation) = "none" THEN "recv" ELSE "schedule"
  /\ emitted' = IF progress.running THEN emitted + 1 ELSE emitted
  /\ UNCHANGED <<simulation, cur, progress, incoming, feedback, delayed, sent,
                 lastCommand, op, water_flow, rains>>

\* tokio::spawn(send_event_delayed(..)) or send_event(.., &mut outgoing_feedback_loop).
\* The bounded channel (futures_channel::mpsc) takes the event of a sender that is not
\* parked, and parks the sender when the channel then holds more than its buffer: the
\* send of the loop's own sender completes only once the receiver has pulled an event,
\* and the receiver is the loop.
Schedule ==
  /\ pc = "schedule"
  /\ IF Schedules(cur.ev, simulation) = "delayed"
     THEN /\ delayed' = Append(delayed, ScheduledTick(cur.ev))
          /\ UNCHANGED feedback
          /\ pc' = "recv"
     ELSE /\ feedback' = Append(feedback, ScheduledTick(cur.ev))
          /\ UNCHANGED delayed
          /\ pc' = IF Len(feedback) < FEEDBACK_CHANNEL_SIZE THEN "recv" ELSE "parked"
  /\ UNCHANGED <<simulation, cur, progress, incoming, outgoing, sent, lastCommand, op, water_flow, rains,
                 emitted>>

\* run is over: it panicked, returned an error, or returned Ok
RunEnded == pc \in {"panicked", "failed", "returned"}

\* Elapsed as it would be if the task did not sleep
Elapsed_AtOnce(t) == t.waited >= 0

\* whether a send_event_delayed task is past its sleep
Elapsed(t) == t.waited >= t.delay

\* Fire as it would be if the channel put a delayed event ahead of the queued ones
Fire_JumpsQueue(i) ==
  /\ Elapsed(delayed[i])
  /\ delayed' = Remove(delayed, i)
  /\ IF RunEnded
     THEN UNCHANGED feedback
     ELSE feedback' = <<delayed[i]>> \o feedback
  /\ UNCHANGED <<simulation, pc, cur, progress, incoming, outgoing, sent, lastCommand, op, water_flow, rains,
                 emitted>>

\* send_event_delayed after its sleep: the event goes onto the feedback channel
\* (to nobody once run has ended); the task has a sender of its own, whose first event
\* the channel always takes
Fire(i) ==
  /\ Elapsed(delayed[i])
  /\ delayed' = Remove(delayed, i)
  /\ IF RunEnded
     THEN UNCHANGED feedback
     ELSE feedback' = Append(feedback, delayed[i])
  /\ UNCHANGED <<simulation, pc, cur, progress, incoming, outgoing, sent, lastCommand, op, water_flow, rains,
                 emitted>>

FireDelayed == \E i \in 1..Len(delayed) : Fire(i)

\* wall-clock time passes for the sleeping tasks
Advance ==
  /\ \E i \in 1..Len(delayed) : ~Elapsed(delayed[i])
  /\ delayed' = [i \in 1..Len(delayed) |->
                   [delayed[i] EXCEPT !.waited = Min(@ + MillisPerTick, delayed[i].delay)]]
  /\ UNCHANGED <<simulation, pc, cur, progress, incoming, feedback, outgoing, sent,
                 lastCommand, op, water_flow, rains, emitted>>

\* the client sends a frame
ClientSend ==
  /\ pc # "panicked"
  /\ sent < MaxClientFrames
  /\ Len(incoming) < MaxIncoming
  /\ \E f \in ClientFrames : incoming' = Append(incoming, f)
  /\ sent' = sent + 1
  /\ UNCHANGED <<simulation, pc, cur, progress, feedback, delayed, outgoing, lastCommand, op, water_flow, rains,
                 emitted>>

\* the client reads a Progress frame
ClientReceive ==
  /\ outgoing # <<>>
  /\ outgoing' = Tail(outgoing)
  /\ UNCHANGED <<simulation, pc, cur, progress, incoming, feedback, delayed, sent,
                 lastCommand, op, water_flow, rains, emitted>>

Next ==
  \/ ClientSend
  \/ ClientReceive
  \/ DropFrame
  \/ RecvIncoming
  \/ RecvFeedback
  \/ SendProgress
  \/ Schedule
  \/ FireDelayed
  \/ Advance

Spec == Init /\ [][Next]_vars

---------------------------------------------------------------------------
(* The Simulation on its own: any sequence of calls of its public methods  *)
(* on a Simulation::new().                                                 *)

\* the chunks forward is called with: negative, none, one tick, a tick and a bit,
\* and the protocol's
ForwardChunks == {0 - DELTA_TIME, 0, DELTA_TIME, DELTA_TIME + 2, FORWARD_HOURS}

Call(name, hours, panics, after) ==
  /\ pc = "recv"
  /\ op' = [name |-> name, hours |-> hours]
  /\ IF panics
     THEN pc' = "panicked" /\ UNCHANGED simulation
     ELSE pc' = pc /\ simulation' = after
  /\ UNCHANGED <<cur, progress, incoming, feedback, delayed, outgoing, sent, lastCommand,
                 emitted, water_flow, rains>>

CallStart ==
  \E e \in StartEvents :
    Call("start", e.hours, FALSE, start(simulation, e.landscape, e.hours))

CallPause == Call("pause", 0, FALSE, pause(simulation))

CallResume == Call("resume", 0, FALSE, resume(simulation))

CallStep == Call("step", 0, step_panics(simulation), step(simulation))

CallStartForward == Call("start_forward", 0, FALSE, start_forward(simulation))

CallForward ==
  \E h \in ForwardChunks :
    Call("forward", h, forward_panics(simulation, h), forward(simulation, h))

NextSim ==
  \/ CallStart
  \/ CallPause
  \/ CallResume
  \/ CallStep
  \/ CallStartForward
  \/ CallForward

SpecSim == Init /\ [][NextSim]_vars

---------------------------------------------------------------------------
(* One run: the client sends a single Start with hours >= 0 and then only  *)
(* reads.  The tokio runtime polls every task that is ready and the timer  *)
(* wakes every sleeping task, so each step of the loop, of a delayed task  *)
(* and of the clock that stays possible is eventually taken; the client    *)
(* keeps reading what it is sent.                                          *)

\* the run of tests::successful_connection, and short runs
RunStarts ==
  {StartEvent(<<100, 200>>, 100)}
    \cup {StartEvent(<<100, 400>>, h) : h \in {0, DELTA_TIME, 2 * DELTA_TIME, MaxHours}}

ClientStart ==
  /\ sent = 0
  /\ incoming = <<>>
  /\ \E e \in RunStarts : incoming' = <<e>>
  /\ sent' = 1
  /\ UNCHANGED <<simulation, pc, cur, progress, feedback, delayed, outgoing, lastCommand, op, water_flow, rains,
                 emitted>>

\* the loop takes the tick at the head of the feedback channel; RecvFeedback is the
\* only step that does
TakeFeedback ==
  /\ pc = "recv"
  /\ feedback # <<>>
  /\ feedback' = Tail(feedback)

NextRun ==
  \/ ClientStart
  \/ ClientReceive
  \/ RecvIncoming
  \/ RecvFeedback
  \/ SendProgress
  \/ Schedule
  \/ FireDelayed
  \/ Advance

SpecRun ==
  /\ Init
  /\ [][NextRun]_vars
  /\ WF_vars(ClientReceive)
  /\ WF_vars(RecvIncoming)
  /\ WF_feedback(TakeFeedback)
  /\ WF_vars(SendProgress)
  /\ WF_vars(Schedule)
  /\ WF_vars(FireDelayed)
  /\ WF_vars(Advance)

---------------------------------------------------------------------------
(* One fast-forwarded run: the client sends a Start with hours >= 0 and a  *)
(* Forward right behind it, and then only reads.  The two frames are       *)
(* processed before the first MillisPerTick of the Start's delay have      *)
(* passed.  One run is longer than a chunk of FORWARD_HOURS.               *)

ForwardStarts ==
  {StartEvent(<<>>, FORWARD_HOURS + MaxHours)}
    \cup {StartEvent(<<100, 400>>, h) : h \in {0, DELTA_TIME, MaxHours}}

ClientStartForward ==
  /\ sent = 0
  /\ incoming = <<>>
  /\ \E e \in ForwardStarts : incoming' = <<e, Event("Forward")>>
  /\ sent' = 2
  /\ UNCHANGED <<simulation, pc, cur, progress, feedback, delayed, outgoing, lastCommand, op, water_flow, rains,
                 emitted>>

AdvanceForward == lastCommand = "Forward" /\ Advance

NextForward ==
  \/ ClientStartForward
  \/ ClientReceive
  \/ RecvIncoming
  \/ RecvFeedback
  \/ SendProgress
  \/ Schedule
  \/ FireDelayed
  \/ AdvanceForward

SpecForward ==
  /\ Init
  /\ [][NextForward]_vars
  /\ WF_vars(ClientReceive)
  /\ WF_vars(RecvIncoming)
  /\ WF_feedback(TakeFeedback)
  /\ WF_vars(SendProgress)
  /\ WF_vars(Schedule)
  /\ WF_vars(FireDelayed)
  /\ WF_vars(AdvanceForward)

---------------------------------------------------------------------------
(* The client closes the connection: it sends a Start, possibly a Pause,   *)
(* and closes.  run returns Ok when multiplexed_events.next() yields None, *)
(* which select_all does when every stream it merges has ended.  The       *)
(* feedback channel ends when every Sender is gone, and run keeps          *)
(* outgoing_feedback_loop for as long as it loops.  The outbound half of a *)
(* closed connection may refuse a frame, and run then returns the error.   *)

\* the Senders of the feedback channel that are alive: run's own while it loops, and the
\* clone of every delayed task
FeedbackSenders ==
  (IF RunEnded THEN 0 ELSE 1) + Len(delayed)

\* multiplexed_events.next() yields None: both streams have ended
MergedEnded == InboundEnded /\ feedback = <<>> /\ FeedbackSenders = 0

\* the while-let ends and run returns Ok(()).  No step of the loop can take it, because
\* the loop itself keeps a Sender alive: it is no disjunct of NextClose
Return ==
  /\ pc = "recv"
  /\ MergedEnded
  /\ pc' = "returned"
  /\ UNCHANGED <<simulation, cur, progress, incoming, feedback, delayed, outgoing, sent,
                 lastCommand, op, water_flow, rains, emitted>>

ClientPause ==
  /\ sent = 1
  /\ Len(incoming) < MaxIncoming
  /\ incoming' = Append(incoming, Event("Pause"))
  /\ sent' = 2
  /\ UNCHANGED <<simulation, pc, cur, progress, feedback, delayed, outgoing, lastCommand, op, water_flow, rains,
                 emitted>>

ClientClose ==
  /\ sent >= 1
  /\ ~InboundClosed
  /\ incoming' = Append(incoming, EndOfStream)
  /\ UNCHANGED <<simulation, pc, cur, progress, feedback, delayed, outgoing, sent,
                 lastCommand, op, water_flow, rains, emitted>>

\* send_progress fails on a connection the client has closed, and `?` ends run
SendProgressFails ==
  /\ pc = "progress"
  /\ InboundClosed
  /\ pc' = "failed"
  /\ UNCHANGED <<simulation, cur, progress, incoming, feedback, delayed, outgoing, sent,
                 lastCommand, op, water_flow, rains, emitted>>

NextClose ==
  \/ ClientStart
  \/ ClientPause
  \/ ClientClose
  \/ ClientReceive
  \/ RecvIncoming
  \/ RecvFeedback
  \/ SendProgress
  \/ SendProgressFails
  \/ Schedule
  \/ FireDelayed
  \/ Advance

SpecClose ==
  /\ Init
  /\ [][NextClose]_vars
  /\ WF_vars(ClientReceive)
  /\ WF_vars(RecvIncoming)
  /\ WF_feedback(TakeFeedback)
  /\ WF_vars(SendProgress \/ SendProgressFails)
  /\ WF_vars(Schedule)
  /\ WF_vars(FireDelayed)
  /\ WF_vars(Advance)

---------------------------------------------------------------------------

(* A Pause during fast-forward: the client sends a Start and a Forward     *)
(* right behind it, and a Pause at any moment after the Forward has been   *)
(* processed.  One run is longer than two chunks of FORWARD_HOURS.         *)
(* select_all polls the streams that are ready in the order in which they  *)
(* became ready, so a frame that waits on the inbound stream is pulled     *)
(* after at most one more tick: a pull that is possible again and again is *)
(* eventually made.                                                        *)

PauseStarts ==
  {StartEvent(<<>>, 2 * FORWARD_HOURS + MaxHours), StartEvent(<<100, 400>>, MaxHours)}

ClientStartThenForward ==
  /\ sent = 0
  /\ incoming = <<>>
  /\ \E e \in PauseStarts : incoming' = <<e, Event("Forward")>>
  /\ sent' = 2
  /\ UNCHANGED <<simulation, pc, cur, progress, feedback, delayed, outgoing, lastCommand, op, water_flow, rains,
                 emitted>>

ClientPauseDuringForward ==
  /\ sent = 2
  /\ lastCommand = "Forward"
  /\ incoming = <<>>
  /\ incoming' = <<Event("Pause")>>
  /\ sent' = 3
  /\ UNCHANGED <<simulation, pc, cur, progress, feedback, delayed, outgoing, lastCommand, op, water_flow, rains,
                 emitted>>

\* the loop takes the frame at the head of the inbound stream
TakeIncoming ==
  /\ pc = "recv"
  /\ incoming # <<>>
  /\ incoming' = Tail(incoming)

NextPause ==
  \/ ClientStartThenForward
  \/ ClientPauseDuringForward
  \/ ClientReceive
  \/ RecvIncoming
  \/ RecvFeedback
  \/ SendProgress
  \/ Schedule
  \/ FireDelayed
  \/ AdvanceForward

SpecPause ==
  /\ Init
  /\ [][NextPause]_vars
  /\ WF_vars(ClientReceive)
  /\ SF_incoming(TakeIncoming)
  /\ WF_feedback(TakeFeedback)
  /\ WF_vars(SendProgress)
  /\ WF_vars(Schedule)
  /\ WF_vars(FireDelayed)
  /\ WF_vars(AdvanceForward)

---------------------------------------------------------------------------

(* The feedback channel refuses a tick.  run takes any Sink as its         *)
(* FeedbackTx, and a send on it may fail (a channel whose receiver is      *)
(* gone).  The loop's own send is awaited with `?`; the delayed task's     *)
(* send is the result of a spawned future that nothing reads.  The client  *)
(* sends a Start and possibly a Resume.                                    *)

ClientResume ==
  /\ sent = 1
  /\ Len(incoming) < MaxIncoming
  /\ incoming' = Append(incoming, Event("Resume"))
  /\ sent' = 2
  /\ UNCHANGED <<simulation, pc, cur, progress, feedback, delayed, outgoing, lastCommand, op, water_flow, rains,
                 emitted>>

\* ScheduleFails as it would be if the loop ignored the error of its own send
ScheduleFails_Ignored ==
  /\ pc = "schedule"
  /\ Schedules(cur.ev, simulation) = "immediate"
  /\ pc' = "recv"
  /\ UNCHANGED <<simulation, cur, progress, incoming, feedback, delayed, outgoing, sent,
                 lastCommand, op, water_flow, rains, emitted>>

\* send_event(.., &mut outgoing_feedback_loop).await? fails: run returns the error
ScheduleFails ==
  /\ pc = "schedule"
  /\ Schedules(cur.ev, simulation) = "immediate"
  /\ pc' = "failed"
  /\ UNCHANGED <<simulation, cur, progress, incoming, feedback, delayed, outgoing, sent,
                 lastCommand, op, water_flow, rains, emitted>>

\* the send of a send_event_delayed task fails: the task ends with the error, which
\* tokio::spawn keeps in a JoinHandle that was dropped
FireFails(i) ==
  /\ Elapsed(delayed[i])
  /\ ~RunEnded
  /\ delayed' = Remove(delayed, i)
  /\ UNCHANGED <<simulation, pc, cur, progress, incoming, feedback, outgoing, sent,
                 lastCommand, op, water_flow, rains, emitted>>

FireDelayedFails == \E i \in 1..Len(delayed) : FireFails(i)

NextFail ==
  \/ ClientStart
  \/ ClientResume
  \/ ClientReceive
  \/ RecvIncoming
  \/ RecvFeedback
  \/ SendProgress
  \/ Schedule
  \/ ScheduleFails
  \/ FireDelayed
  \/ FireDelayedFails
  \/ Advance

SpecFail == Init /\ [][NextFail]_vars

---------------------------------------------------------------------------

(* WaterFlow on its own (water_flow.rs, tests): a WaterFlow is built for a *)
(* landscape and rain is called on it, up to MaxRains times.               *)

\* the landscapes of the tests' scenarios, the empty one, some with a sink between two
\* deeper sinks, and every landscape of up to FlowMaxLen segments of level 0..FlowMaxLevel
FlowLandscapes ==
  {<<>>, <<6, 4, 5, 9>>, <<2, 6, 5, 9>>, <<1, 4, 4, 3, 4, 4, 1>>, <<4, 1, 4, 6, 5>>,
   <<4, 7, 5, 8, 6, 9, 7>>, <<6, 4, 5, 9, 9, 2, 6, 5, 9, 7>>, <<0, 3, 2, 3, 0>>,
   <<0, 3, 2, 3, 2, 3, 0>>, <<0, 2, 1, 2, 0, 3>>}
    \cup UNION {[1..n -> 0..FlowMaxLevel] : n \in 1..FlowMaxLen}

\* hours of rain, in hundredths
RainHours == {0, 50, 100, 200, 400}

\* let mut water_flow = WaterFlow::new(landscape)
CallNew ==
  /\ \E landscape \in FlowLandscapes : water_flow' = WaterFlow_new(landscape)
  /\ rains' = 0
  /\ op' = [name |-> "new", hours |-> 0]
  /\ UNCHANGED <<simulation, pc, cur, progress, incoming, feedback, delayed, outgoing,
                 sent, lastCommand, emitted>>

\* water_flow.rain(hours)
CallRain ==
  /\ rains < MaxRains
  /\ \E hours \in RainHours :
       /\ water_flow' = rain(water_flow, hours)
       /\ op' = [name |-> "rain", hours |-> hours]
  /\ rains' = rains + 1
  /\ UNCHANGED <<simulation, pc, cur, progress, incoming, feedback, delayed, outgoing,
                 sent, lastCommand, emitted>>

NextFlow ==
  \/ CallNew
  \/ CallRain

SpecFlow == Init /\ [][NextFlow]_vars

---------------------------------------------------------------------------

(* A flood: the client sends as many Starts as the feedback channel has    *)
(* room for and then a Resume, back to back within the first delay of a    *)
(* Step.  It reads its Progress frames, but not the answer to its Resume   *)
(* before the delayed tasks have fired: the loop waits in send_progress    *)
(* for that long.                                                          *)

ClientFlood ==
  /\ sent <= FEEDBACK_CHANNEL_SIZE
  /\ Len(incoming) < MaxIncoming
  /\ incoming' = Append(incoming, IF sent < FEEDBACK_CHANNEL_SIZE
                                  THEN StartEvent(<<>>, MaxHours)
                                  ELSE Event("Resume"))
  /\ sent' = sent + 1
  /\ UNCHANGED <<simulation, pc, cur, progress, feedback, delayed, outgoing, lastCommand,
                 op, water_flow, rains, emitted>>

\* the loop waits in send_progress for the client's Resume: the client has not read the
\* frames before it
AnsweringResume ==
  /\ pc = "progress"
  /\ cur.ev.type = "Resume"
  /\ Len(outgoing) >= MaxOutgoing

\* the client reads, but not while tasks are pending and its Resume is being answered
ClientReceiveAfterFlood ==
  /\ AnsweringResume => delayed = <<>>
  /\ ClientReceive

\* the delay of the Steps passes while the loop waits for the client to read
AdvanceAfterFlood ==
  /\ AnsweringResume
  /\ Advance

\* the tasks wake in the order of their deadlines, the oldest first
FireOldest ==
  /\ delayed # <<>>
  /\ Fire(1)

NextFlood ==
  \/ ClientFlood
  \/ ClientReceiveAfterFlood
  \/ RecvIncoming
  \/ RecvFeedback
  \/ SendProgress
  \/ Schedule
  \/ FireOldest
  \/ AdvanceAfterFlood

SpecFlood == Init /\ [][NextFlood]_vars

---------------------------------------------------------------------------

(* Properties.  A step of the main loop is recognised by what it does to   *)
(* pc and to the two streams; cur' is then the event it pulled.            *)

Max(a, b) == IF a > b THEN a ELSE b

Last(seq) == seq[Len(seq)]

\* the loop pulls a decoded client event in this step
PulledIncoming ==
  /\ pc = "recv"
  /\ incoming # <<>>
  /\ event_from_message(Head(incoming))
  /\ incoming' = Tail(incoming)

\* the loop pulls a tick of the feedback channel in this step
PulledFeedback ==
  /\ pc = "recv"
  /\ feedback # <<>>
  /\ Len(feedback') = Len(feedback) - 1

Pulled == PulledIncoming \/ PulledFeedback

\* the step ends the phase the loop is in
LeavesPhase(phase) == pc = phase /\ pc' # phase

\* the loop leaves the simulation, the outbound stream and the ticks as they are
NothingHappens ==
  /\ simulation' = simulation
  /\ progress' = progress
  /\ outgoing' = outgoing
  /\ delayed' = delayed
  /\ Len(feedback') <= Len(feedback)
  /\ pc' = "recv"

\* the events the claims say are answered with a Progress
Answered(e, s) ==
  \/ e.type \in {"Start", "Pause", "Resume", "Forward"}
  \/ e.type = "Step" /\ s.running /\ ~s.fast_forward
  \/ e.type = "ForwardStep" /\ s.running /\ s.fast_forward

(* C1: every event pulled from the merged stream is answered with exactly  *)
(* one Progress when it is Start, Pause, Resume, Forward, a Step received  *)
(* while running and not fast_forward, or a ForwardStep received while     *)
(* running and fast_forward, and with none otherwise: pulling the event    *)
(* leads to the send of one Progress in the first case and back to         *)
(* receiving in the second, and a Progress is appended to the outbound     *)
(* stream only by that one send.                                           *)
C1_OneProgressPerAnsweredEvent ==
  [][/\ Pulled => /\ outgoing' = outgoing
                  /\ pc' = IF Answered(cur'.ev, simulation) THEN "progress" ELSE "recv"
     /\ LeavesPhase("progress") => /\ outgoing' = Append(outgoing, progress)
                                   /\ pc' \in {"schedule", "recv"}
     /\ LeavesPhase("schedule") => pc' = "recv"
     /\ ~LeavesPhase("progress") => Len(outgoing') <= Len(outgoing)]_vars

(* C2: a Step pulled while the simulation is not running, or while it is  *)
(* in fast-forward, is dropped: the simulation (time, hours, running,      *)
(* fast_forward, levels) is unchanged, no Progress is built or sent, no    *)
(* task is spawned, nothing is enqueued and the loop is back at receiving. *)
C2_StepDroppedWhenGuardFails ==
  [][(Pulled /\ cur'.ev.type = "Step" /\ (~simulation.running \/ simulation.fast_forward))
       => NothingHappens]_vars

\* the last event pulled was a Step and the loop is idle, with a simulation that is
\* neither running nor finished: that Step came while paused and was dropped
C2_Witness ==
  /\ pc = "recv"
  /\ cur.ev.type = "Step"
  /\ cur.src = "feedback"
  /\ ~simulation.running
  /\ simulation.time > 0
  /\ simulation.time < simulation.hours

(* C3: a ForwardStep pulled while the simulation is not running, or while  *)
(* it is not in fast-forward, is dropped: the simulation is unchanged, no  *)
(* Progress is built or sent and no further ForwardStep is enqueued.       *)
C3_ForwardStepDroppedWhenGuardFails ==
  [][(Pulled /\ cur'.ev.type = "ForwardStep"
        /\ (~simulation.running \/ ~simulation.fast_forward))
       => NothingHappens]_vars

\* the last event pulled was a ForwardStep of the feedback channel, stale since a
\* Pause, and the simulation is paused before its end: that ForwardStep was dropped
C3_Witness ==
  /\ pc = "recv"
  /\ cur.ev.type = "ForwardStep"
  /\ cur.src = "feedback"
  /\ cur.stale
  /\ lastCommand = "Pause"
  /\ ~simulation.running
  /\ simulation.time < simulation.hours

(* C4: a tick that was scheduled before a Pause was processed (a sleeping  *)
(* delayed task or a tick queued on the feedback channel at that time)     *)
(* never causes a simulation step or a Progress when it is later pulled,   *)
(* whatever commands were processed in between.                            *)
C4_StaleTickNeverActs ==
  [][(PulledFeedback /\ Head(feedback).stale) => NothingHappens]_vars

(* C5, as stated: after a Pause has been processed and until the next      *)
(* Start, Resume or Forward is processed, no tick is enqueued onto the     *)
(* feedback channel.                                                       *)
C5_NoTickEnqueuedAfterPause ==
  [][(lastCommand = "Pause" /\ lastCommand' = "Pause")
       => Len(feedback') <= Len(feedback)]_vars

(* C5, amended: after a Pause has been processed and until the next Start, *)
(* Resume or Forward is processed, the protocol schedules no tick (it      *)
(* spawns no delayed task and never reaches the scheduling of a handler);  *)
(* the only ticks that reach the feedback channel are the Steps of delayed *)
(* tasks spawned before the Pause, when their delay has elapsed.           *)
C5_NoTickScheduledAfterPause ==
  [][(lastCommand = "Pause" /\ lastCommand' = "Pause")
       => /\ Len(delayed') <= Len(delayed)
          /\ pc' # "schedule"
          /\ Len(feedback') > Len(feedback)
               => /\ Len(delayed') = Len(delayed) - 1
                  /\ feedback' = Append(feedback, Last(feedback'))
                  /\ Last(feedback').stale
                  /\ Last(feedback').ev.type = "Step"
                  /\ Last(feedback').delay = STEP_DELAY_MILLIS
                  /\ Last(feedback').waited >= STEP_DELAY_MILLIS]_vars

\* a Pause is the last command processed, the loop is idle, and the Step of a delayed
\* task spawned before the Pause is on the feedback channel with no task left asleep
C5_Witness ==
  /\ lastCommand = "Pause"
  /\ pc = "recv"
  /\ cur.ev.type = "Pause"
  /\ delayed = <<>>
  /\ feedback # <<>>
  /\ Last(feedback).stale
  /\ Last(feedback).delay = STEP_DELAY_MILLIS

(* C6: processing a Resume sends its Progress and then enqueues exactly    *)
(* one Step onto the feedback channel with no delay, in every simulation   *)
(* state: pulling it leads to the send of the Progress, the send leads to  *)
(* the scheduling, the scheduling appends one undelayed Step and spawns no *)
(* task, and until then the handler enqueues nothing.                      *)
C6_ResumeEnqueuesOneStep ==
  [][/\ (Pulled /\ cur'.ev.type = "Resume")
          => pc' = "progress" /\ delayed' = delayed /\ outgoing' = outgoing
     /\ cur.ev.type = "Resume"
          => /\ LeavesPhase("progress")
                  => /\ pc' = "schedule"
                     /\ outgoing' = Append(outgoing, progress)
                     /\ feedback' = feedback /\ delayed' = delayed
             /\ LeavesPhase("schedule")
                  => /\ pc' = "recv"
                     /\ feedback' = Append(feedback, Tick("Step", 0))
                     /\ delayed' = delayed /\ outgoing' = outgoing
             /\ (pc \in {"progress", "schedule"} /\ pc' = pc /\ feedback' # feedback)
                  => Len(delayed') = Len(delayed) - 1]_vars

\* a Resume was processed on a finished simulation and its handler is over: the
\* simulation is still not running, and the undelayed Step is on the feedback channel
C6_Witness ==
  /\ pc = "recv"
  /\ cur.ev.type = "Resume"
  /\ simulation.hours > 0
  /\ simulation.time >= simulation.hours
  /\ ~simulation.running
  /\ feedback # <<>>
  /\ Last(feedback) = Tick("Step", 0)

(* C7: a Start{landscape, hours} processed in any state sets hours to the  *)
(* given hours, time to 0, running to true, fast_forward to false and the  *)
(* levels to the landscape, element by element, and the Progress it sends  *)
(* carries running = true, time = 0 and levels = landscape.                *)
C7_StartResets ==
  [][/\ (Pulled /\ cur'.ev.type = "Start")
          => /\ simulation'.hours = cur'.ev.hours
             /\ simulation'.time = 0
             /\ simulation'.running
             /\ ~simulation'.fast_forward
             /\ Len(get_levels(simulation')) = Len(cur'.ev.landscape)
             /\ \A i \in 1..Len(cur'.ev.landscape) :
                  get_levels(simulation')[i] = cur'.ev.landscape[i]
             /\ pc' = "progress"
     /\ (cur.ev.type = "Start" /\ LeavesPhase("progress"))
          => outgoing' = Append(outgoing, [running |-> TRUE, time |-> 0,
                                           levels |-> cur.ev.landscape])]_vars

\* a Start was processed after an earlier run had been put into fast-forward (its
\* ForwardStep is still queued) and paused (the tick is stale), and is being answered
C7_Witness ==
  /\ cur.ev.type = "Start"
  /\ cur.ev.landscape = <<100, 400>>
  /\ pc = "schedule"
  /\ simulation.time = 0
  /\ simulation.running /\ ~simulation.fast_forward
  /\ get_levels(simulation) = <<100, 400>>
  /\ outgoing # <<>>
  /\ Last(outgoing).levels = <<100, 400>>
  /\ feedback # <<>>
  /\ Head(feedback).ev.type = "ForwardStep"
  /\ Head(feedback).stale

(* C8: the Step scheduled by a Start or by a processed Step reaches the    *)
(* feedback channel only once its 200 ms have elapsed, and the main loop   *)
(* does not wait for it: scheduling spawns a task that has its whole delay *)
(* ahead and returns the loop to receiving, a task leaves only after it    *)
(* has waited STEP_DELAY_MILLIS, and a delayed Step that is pulled has     *)
(* waited that long; the witness is a client event processed during the    *)
(* delay.                                                                  *)
C8_DelayedStepNotEarlyLoopNotBlocked ==
  [][/\ (cur.ev.type \in {"Start", "Step"} /\ LeavesPhase("schedule"))
          => /\ pc' = "recv"
             /\ feedback' = feedback
             /\ delayed' = Append(delayed, [ev |-> Event("Step"), delay |-> STEP_DELAY_MILLIS,
                                            waited |-> 0, stale |-> FALSE])
     /\ Len(delayed') < Len(delayed)
          => \E i \in 1..Len(delayed) :
               /\ delayed' = Remove(delayed, i)
               /\ delayed[i].delay = STEP_DELAY_MILLIS
               /\ delayed[i].waited >= STEP_DELAY_MILLIS
     /\ (PulledFeedback /\ Head(feedback).delay > 0)
          => Head(feedback).waited >= STEP_DELAY_MILLIS]_vars

\* a client Pause was pulled and answered while the Step of a delayed task is part
\* of the way through its delay
C8_Witness ==
  /\ pc = "recv"
  /\ cur.src = "client"
  /\ cur.ev.type = "Pause"
  /\ delayed # <<>>
  /\ Head(delayed).stale
  /\ Head(delayed).waited > 0
  /\ Head(delayed).waited < STEP_DELAY_MILLIS
  /\ feedback = <<>>

(* C9: a Step that passes its guard performs exactly one simulation step,  *)
(* sends its Progress, and then schedules exactly one delayed Step when    *)
(* the simulation is not finished after the step and nothing when it is.   *)
C9_StepStepsOnceThenSchedules ==
  [][/\ (Pulled /\ cur'.ev.type = "Step" /\ simulation.running /\ ~simulation.fast_forward)
          => /\ simulation' = step(simulation)
             /\ pc' = "progress"
             /\ outgoing' = outgoing /\ delayed' = delayed
     /\ cur.ev.type = "Step"
          => /\ LeavesPhase("progress")
                  => /\ outgoing' = Append(outgoing, make_progress(simulation))
                     /\ simulation' = simulation
                     /\ feedback' = feedback /\ delayed' = delayed
                     /\ pc' = IF simulation.time >= simulation.hours
                              THEN "recv" ELSE "schedule"
             /\ LeavesPhase("schedule")
                  => /\ pc' = "recv"
                     /\ feedback' = feedback
                     /\ delayed' = Append(delayed, Tick("Step", STEP_DELAY_MILLIS))]_vars

(* C10: Simulation.step advances time by                                   *)
(* dt = min(delta_time, max(0, hours - time)) -- a full tick while one     *)
(* remains, the remainder on the last tick, 0 when time >= hours -- and    *)
(* after every call running = (time < hours), with fast_forward and hours  *)
(* unchanged.                                                              *)
C10_StepAdvancesByDt ==
  [][op'.name = "step"
       => /\ pc' # "panicked"
          /\ simulation'.time =
               simulation.time
                 + Min(simulation.delta_time, Max(0, simulation.hours - simulation.time))
          /\ simulation'.running = (simulation'.time < simulation'.hours)
          /\ simulation'.fast_forward = simulation.fast_forward
          /\ simulation'.hours = simulation.hours]_vars

(* C11: in every state the protocol reaches in which the hours of the      *)
(* last Start are >= 0 (as are those of a new Simulation), the simulation  *)
(* satisfies 0 <= time <= hours: time never overshoots the duration,       *)
(* whatever Start, Step, Forward, ForwardStep, Pause and Resume were       *)
(* processed and in whatever order.                                        *)
C11_TimeWithinHours ==
  simulation.hours >= 0 => (0 <= simulation.time /\ simulation.time <= simulation.hours)

\* a run over MaxHours, which is no multiple of DELTA_TIME, was taken to its end by a
\* tick: the last tick was a partial one and time stands exactly at hours
C11_Witness ==
  /\ cur.ev.type \in {"Step", "ForwardStep"}
  /\ cur.src = "feedback"
  /\ simulation.hours = MaxHours
  /\ simulation.hours % DELTA_TIME # 0
  /\ simulation.time = simulation.hours
  /\ ~simulation.running

\* the run is over: the loop is idle after the Step whose Progress, the last one built,
\* carries running = false and time = hours, and no tick is queued or asleep
RunOver ==
  /\ pc = "recv"
  /\ cur.ev.type = "Step"
  /\ ~simulation.running
  /\ simulation.time = simulation.hours
  /\ progress = [running |-> FALSE, time |-> simulation.hours,
                 levels |-> get_levels(simulation)]
  /\ incoming = <<>>
  /\ feedback = <<>>
  /\ delayed = <<>>

(* C12: after a Start with hours >= 0 and no further client command, with  *)
(* every delayed tick and every step of the loop eventually taken, the     *)
(* protocol eventually sends a Progress with running = false and           *)
(* time = hours (every Progress built is put on the outbound stream), and  *)
(* from then on it sends no Progress and no tick is queued or asleep.      *)
C12_RunEndsWithFinalProgress ==
  /\ (cur.ev.type = "Start") ~> [](RunOver)
  /\ [][LeavesPhase("progress") => outgoing' = Append(outgoing, progress)]_vars
  /\ [][RunOver => (outgoing' = outgoing \/ outgoing' = Tail(outgoing))]_vars

\* the run of Start{[1, 2], 1.0} is over and the client has read every Progress
C12_Witness ==
  /\ RunOver
  /\ simulation.landscape = <<100, 200>>
  /\ simulation.hours = 100
  /\ outgoing = <<>>

(* C13: for Start{landscape: [1, 2], hours: 1.0} with no other client      *)
(* command and every delayed tick honoured, exactly 11 Progress frames     *)
(* with running = true have been sent when the first Progress with         *)
(* running = false is about to be sent.                                    *)
C13_ElevenRunningProgresses ==
  (/\ simulation.landscape = <<100, 200>>
   /\ simulation.hours = 100
   /\ pc = "progress"
   /\ ~progress.running) => emitted = 11

ForwardOver ==
  /\ pc = "recv"
  /\ ~simulation.running
  /\ simulation.time = simulation.hours
  /\ progress = [running |-> FALSE, time |-> simulation.hours,
                 levels |-> get_levels(simulation)]
  /\ incoming = <<>>
  /\ feedback = <<>>
  /\ delayed = <<>>

(* C15: a ForwardStep pulled while running and fast_forward takes time to  *)
(* hours when no more than a chunk of FORWARD_HOURS remains, and otherwise *)
(* advances it by a chunk (by less than a chunk and a tick), leaving       *)
(* running = (time < hours); it sends one Progress of the simulation as it *)
(* then is, and then appends one undelayed ForwardStep to the feedback     *)
(* channel exactly when the simulation is not finished.  With no other     *)
(* command after the Forward the chain ends with a Progress with           *)
(* running = false and time = hours, and the feedback channel stays empty. *)
C15_ForwardStepChain ==
  /\ [][/\ (Pulled /\ cur'.ev.type = "ForwardStep"
              /\ simulation.running /\ simulation.fast_forward)
             => /\ pc' = "progress"
                /\ outgoing' = outgoing /\ delayed' = delayed
                /\ simulation'.hours = simulation.hours
                /\ IF simulation.hours - simulation.time <= FORWARD_HOURS
                   THEN simulation'.time = simulation.hours
                   ELSE /\ simulation'.time >= simulation.time + FORWARD_HOURS
                        /\ simulation'.time < simulation.time + FORWARD_HOURS + DELTA_TIME
                /\ simulation'.running = (simulation'.time < simulation.hours)
        /\ cur.ev.type = "ForwardStep"
             => /\ LeavesPhase("progress")
                     => /\ outgoing' = Append(outgoing, make_progress(simulation))
                        /\ simulation' = simulation
                        /\ feedback' = feedback /\ delayed' = delayed
                        /\ pc' = IF simulation.time >= simulation.hours
                                 THEN "recv" ELSE "schedule"
                /\ LeavesPhase("schedule")
                     => /\ pc' = "recv"
                        /\ feedback' = Append(feedback, Tick("ForwardStep", 0))
                        /\ delayed' = delayed]_vars
  /\ (lastCommand = "Forward") ~> [](ForwardOver)

\* a run longer than a chunk was fast-forwarded to its end by two ForwardSteps: the
\* Start, the Forward and the first ForwardStep sent a Progress with running = true
C15_Witness ==
  /\ ForwardOver
  /\ cur.ev.type = "ForwardStep"
  /\ simulation.hours > FORWARD_HOURS
  /\ emitted = 3

\* forward has returned with the simulation finished
ForwardFinished == simulation'.time = simulation'.hours /\ ~simulation'.running

\* forward has returned with time advanced by the chunk, and by less than a tick more
ForwardAdvanced ==
  /\ simulation'.time - simulation.time >= op'.hours
  /\ simulation'.time - simulation.time < op'.hours + DELTA_TIME
  /\ simulation'.running

(* C16, as stated: Simulation.forward(chunk) always returns, and on return *)
(* either the simulation is finished (time = hours, running = false) or    *)
(* time has advanced by at least chunk and by less than chunk plus one     *)
(* tick with running = true; it performs no step when the simulation is    *)
(* already finished or chunk <= 0.                                         *)
C16_ForwardFinishesOrAdvances ==
  [][op'.name = "forward"
       => /\ pc' # "panicked"
          /\ ForwardFinished \/ ForwardAdvanced
          /\ (simulation.time >= simulation.hours \/ op'.hours <= 0)
               => simulation' = simulation]_vars

(* C16, amended: Simulation.forward(chunk) always returns.  When the       *)
(* simulation is already finished or chunk <= 0 it performs no step and    *)
(* leaves the simulation as it is, running included.  Otherwise, on        *)
(* return, either the simulation is finished (time = hours,                *)
(* running = false) or time has advanced by at least chunk and by less     *)
(* than chunk plus one tick with running = true.                           *)
C16_ForwardStepsThenFinishesOrAdvances ==
  [][op'.name = "forward"
       => /\ pc' # "panicked"
          /\ IF simulation.time >= simulation.hours \/ op'.hours <= 0
             THEN simulation' = simulation
             ELSE /\ ForwardFinished \/ ForwardAdvanced
                  /\ simulation'.hours = simulation.hours
                  /\ simulation'.fast_forward = simulation.fast_forward]_vars

\* forward(0.07) has returned on a run over MaxHours that it found at time 0: two
\* ticks were made and the simulation is running
C16_Witness ==
  /\ op = [name |-> "forward", hours |-> DELTA_TIME + 2]
  /\ simulation.hours = MaxHours
  /\ simulation.time = 2 * DELTA_TIME
  /\ simulation.running

\* the call leaves time, hours and the levels as they are
KeepsTimeHoursLevels ==
  /\ simulation'.time = simulation.time
  /\ simulation'.hours = simulation.hours
  /\ get_levels(simulation') = get_levels(simulation)

(* C17: Simulation.pause sets running = false and fast_forward = false     *)
(* from any state and leaves time, hours and the levels unchanged.         *)
C17_PauseStopsAndKeeps ==
  [][op'.name = "pause"
       => /\ pc' # "panicked"
          /\ ~simulation'.running
          /\ ~simulation'.fast_forward
          /\ KeepsTimeHoursLevels]_vars

\* pause has returned on a simulation part of the way through its run
C17_Witness ==
  /\ op.name = "pause"
  /\ simulation.time > 0
  /\ simulation.time < simulation.hours
  /\ get_levels(simulation) # <<>>
  /\ ~simulation.running
  /\ ~simulation.fast_forward

(* C18: Simulation.resume sets running to true exactly when time < hours   *)
(* (not finished) and to false otherwise, always clears fast_forward, and  *)
(* leaves time, hours and the levels unchanged: resuming a finished        *)
(* simulation never restarts it.                                           *)
C18_ResumeRunsUnlessFinished ==
  [][op'.name = "resume"
       => /\ pc' # "panicked"
          /\ simulation'.running = (simulation.time < simulation.hours)
          /\ ~simulation'.fast_forward
          /\ KeepsTimeHoursLevels]_vars

\* resume has returned on a simulation that had reached the end of its run
C18_Witness ==
  /\ op.name = "resume"
  /\ simulation.hours > 0
  /\ simulation.time = simulation.hours
  /\ ~simulation.running
  /\ ~simulation.fast_forward

(* C19: Simulation.start_forward sets running = true and                   *)
(* fast_forward = true when the simulation is not finished, paused or not, *)
(* sets both to false when it is finished, and leaves time, hours and the  *)
(* levels unchanged.                                                       *)
C19_StartForwardUnlessFinished ==
  [][op'.name = "start_forward"
       => /\ pc' # "panicked"
          /\ simulation'.running = (simulation.time < simulation.hours)
          /\ simulation'.fast_forward = (simulation.time < simulation.hours)
          /\ KeepsTimeHoursLevels]_vars

\* start_forward has returned on a simulation part of the way through its run
C19_Witness ==
  /\ op.name = "start_forward"
  /\ simulation.time > 0
  /\ simulation.time < simulation.hours
  /\ simulation.running
  /\ simulation.fast_forward

\* the events of a sequence of ticks, in order
Events(ticks) == [i \in 1..Len(ticks) |-> ticks[i].ev]

(* C20: for one connection the Progress frames are on the outbound stream  *)
(* in the order in which their events were processed, and the ticks of the *)
(* feedback channel are received in the order in which they were enqueued. *)
(* The Progress built when an event is pulled is that of the simulation    *)
(* then, it is put at the tail of the outbound stream before the loop      *)
(* pulls another event, and the stream otherwise only loses its head to    *)
(* the client; a tick is enqueued at the tail of the feedback channel and  *)
(* the loop receives its head.                                             *)
C20_ProgressInOrderFeedbackFifo ==
  [][/\ (Pulled /\ pc' = "progress") => progress' = make_progress(simulation')
     /\ pc = "progress"
          => /\ progress' = progress /\ simulation' = simulation /\ cur' = cur
             /\ pc' \in {"progress", "schedule", "recv"}
             /\ pc' # "progress" => outgoing' = Append(outgoing, progress)
     /\ pc = "schedule" => simulation' = simulation /\ cur' = cur
     /\ outgoing' # outgoing
          => \/ pc = "progress" /\ outgoing' = Append(outgoing, progress)
             \/ outgoing # <<>> /\ outgoing' = Tail(outgoing)
     /\ Len(feedback') > Len(feedback)
          => Events(feedback') = Append(Events(feedback), Last(feedback').ev)
     /\ Len(feedback') = Len(feedback) => Events(feedback') = Events(feedback)
     /\ Len(feedback') < Len(feedback)
          => /\ Events(feedback') = Tail(Events(feedback))
             /\ pc = "recv"
             /\ cur' = [ev |-> Head(feedback).ev, src |-> "feedback",
                         stale |-> Head(feedback).stale]]_vars

\* two Progress frames, the Start's and the Resume's, are on the outbound stream in
\* that order, and two ticks are queued, the Start's delayed Step ahead of the Resume's
C20_Witness ==
  /\ Len(outgoing) = 2
  /\ outgoing[1].time = 0 /\ outgoing[1].running
  /\ cur.ev.type = "Resume"
  /\ outgoing[2] = progress
  /\ sent = 2
  /\ Len(feedback) = 2
  /\ feedback[1].delay = STEP_DELAY_MILLIS
  /\ feedback[2].delay = 0

(* C21: each event is handled to completion before the next is pulled.     *)
(* The Progress built on pulling an answered event carries running, time   *)
(* and levels of the simulation that event's mutation produced; while its  *)
(* send is pending, and while the tick is being scheduled, the loop pulls  *)
(* nothing from either stream and changes neither the simulation nor the   *)
(* Progress, however many client events and due ticks are waiting; the     *)
(* frame put on the outbound stream is that Progress; and the loop puts a  *)
(* tick on the feedback channel or spawns a delayed one only in the step   *)
(* after the send.                                                         *)
C21_HandledToCompletion ==
  [][/\ (Pulled /\ pc' = "progress")
          => /\ progress'.running = simulation'.running
             /\ progress'.time = simulation'.time
             /\ progress'.levels = get_levels(simulation')
     /\ pc \in {"progress", "schedule"}
          => /\ simulation' = simulation /\ progress' = progress /\ cur' = cur
             /\ Len(incoming') >= Len(incoming)
             /\ Len(feedback') >= Len(feedback)
     /\ Len(outgoing') > Len(outgoing)
          => /\ pc = "progress"
             /\ Last(outgoing').running = simulation.running
             /\ Last(outgoing').time = simulation.time
             /\ Last(outgoing').levels = get_levels(simulation)
     /\ pc' = "schedule" => (pc = "schedule" \/ Len(outgoing') = Len(outgoing) + 1)
     /\ (Len(delayed') > Len(delayed) \/ (Len(feedback') > Len(feedback) /\ delayed' = delayed))
          => pc = "schedule" /\ pc' = "recv"]_vars

\* the send of a Step's Progress is suspended on a full outbound stream while a client
\* frame and a due tick are waiting
C21_Witness ==
  /\ pc = "progress"
  /\ cur.ev.type = "Step"
  /\ Len(outgoing) = MaxOutgoing
  /\ incoming # <<>>
  /\ feedback # <<>>
  /\ simulation.time > 0

(* C22: when the inbound client stream closes, the protocol loop           *)
(* eventually exits and run returns Ok, in every simulation state, paused  *)
(* and finished included: once the inbound stream has ended, run           *)
(* eventually has returned normally.                                       *)
C22_RunReturnsOkAfterClose == InboundEnded ~> pc = "returned"

PauseWaits ==
  /\ incoming # <<>>
  /\ Head(incoming).type = "Pause"
  /\ simulation.fast_forward

\* the Pause has taken effect and the chain of ForwardSteps is over
ChainStopped ==
  /\ lastCommand = "Pause"
  /\ ~simulation.running /\ ~simulation.fast_forward
  /\ pc = "recv"
  /\ incoming = <<>>
  /\ feedback = <<>>

ImmediateSendFails ==
  /\ pc = "schedule" /\ pc' # "schedule"
  /\ feedback' = feedback /\ delayed' = delayed

\* in this step the send of a delayed task fails while run is still going
DelayedSendFails ==
  /\ ~RunEnded
  /\ Len(delayed') < Len(delayed)
  /\ feedback' = feedback

(* C25: any failure to send a tick onto the feedback channel is fatal for  *)
(* the connection: run stops and returns an error, both for a tick the     *)
(* main handler enqueues itself and for a tick sent by a delayed task.     *)
C25_AnyTickSendFailureIsFatal ==
  [][(ImmediateSendFails \/ DelayedSendFails) => pc' = "failed"]_vars

(* C25, as the code has it: a failure of the main handler's own send of a  *)
(* tick ends run with the error, and run does nothing after that; a        *)
(* failure of a delayed task's send is not seen by run, which goes on as   *)
(* it was, only without that tick.                                         *)
C25_OnlyTheLoopsOwnSendFailureIsFatal ==
  [][/\ ImmediateSendFails => pc' = "failed"
     /\ DelayedSendFails
          => /\ pc' = pc /\ simulation' = simulation /\ cur' = cur
             /\ progress' = progress /\ outgoing' = outgoing /\ incoming' = incoming
     /\ pc = "failed"
          => /\ pc' = "failed" /\ simulation' = simulation /\ progress' = progress
             /\ Len(outgoing') <= Len(outgoing) /\ feedback' = feedback
             /\ Len(delayed') <= Len(delayed)
     /\ pc' = "failed" => (pc = "failed" \/ ImmediateSendFails)]_vars

\* the send of the Start's delayed Step failed and run goes on: it waits for events with
\* a simulation that is running and unfinished and no tick left anywhere
C25_Witness ==
  /\ pc = "recv"
  /\ cur.ev.type = "Start"
  /\ simulation.running /\ simulation.time < simulation.hours
  /\ delayed = <<>> /\ feedback = <<>>
  /\ incoming = <<>>
  /\ sent = 1


---------------------------------------------------------------------------
(* WaterFlow.  The properties below are about the states of SpecFlow:      *)
(* water_flow after `rains` calls of rain, the last of them with op.hours. *)

\* the f64 sum of the water vector
Volume(wf) == fold_sum(wf.water)

Distance(a, b) == IF a > b THEN a - b ELSE b - a

\* assert_slice_approx_eq_with_epsilon
SliceApproxEq(a, b, epsilon) ==
  /\ Len(a) = Len(b)
  /\ \A i \in 1..Len(a) : Distance(a[i], b[i]) < epsilon

RECURSIVE EverySinkEmpty(_)
\* no sink of the hierarchy below and including `sink` holds water
EverySinkEmpty(sink) ==
  /\ sink.water = 0
  /\ \A i \in 1..Len(sink.children) : EverySinkEmpty(sink.children[i])

AllEqual(landscape) ==
  \A i, j \in 1..Len(landscape) : landscape[i] = landscape[j]

\* the five scenarios of the tests: landscape, hours, expected water
Scenarios ==
  {<<<<6, 4, 5, 9>>, 400, <<400, 600, 500, 100>>>>,
   <<<<2, 6, 5, 9>>, 200, <<500, 100, 200, 0>>>>,
   <<<<1, 4, 4, 3, 4, 4, 1>>, 100, <<300, 0, 0, 100, 0, 0, 300>>>>,
   <<<<4, 1, 4, 6, 5>>, 200, <<200, 500, 200, 0, 100>>>>,
   <<<<4, 7, 5, 8, 6, 9, 7>>, 200, <<440, 140, 340, 40, 240, 0, 200>>>>}

(* C27: mass conservation: after rain(hours) on a new WaterFlow of a       *)
(* non-empty landscape of N segments, the sum of the water vector differs  *)
(* from N * hours by at most 7% of N * hours.                              *)
C27_MassConservedWithin7Percent ==
  (rains = 1 /\ water_flow.landscape # <<>>) =>
    LET expected_volume == Len(water_flow.landscape) * op.hours
    IN  100 * Distance(Volume(water_flow), expected_volume) <= 7 * expected_volume

(* C28: rain is non-accumulative: the water vector after rain(h) is the    *)
(* one a new WaterFlow of the same landscape gets from rain(h), whatever   *)
(* rain calls came before, and no sink holds water when rain has returned. *)
C28_RainIsNonAccumulative ==
  rains >= 1 =>
    /\ water_flow.water = rain(WaterFlow_new(water_flow.landscape), op.hours).water
    /\ \A i \in 1..Len(water_flow.root_sink) : EverySinkEmpty(water_flow.root_sink[i])

(* C29: water finds its level: after rain(hours) a segment that holds      *)
(* water has no total level above that of an adjacent segment, so adjacent *)
(* segments that both hold water are level, both up to the tests'          *)
(* tolerance of 0.1 (the rounding of this model's hundredths stays below   *)
(* it); the five scenarios of the tests give the water they document.      *)
C29_WaterFindsItsLevel ==
  rains >= 1 =>
    LET levels == total_levels(water_flow)
        n == Len(levels)
    IN  /\ \A i \in 1..n : \A j \in {i - 1, i + 1} \cap (1..n) :
             /\ water_flow.water[i] > 0 => levels[i] <= levels[j] + LevelTolerance
             /\ (water_flow.water[i] > 0 /\ water_flow.water[j] > 0)
                  => Distance(levels[i], levels[j]) <= LevelTolerance
        /\ \A s \in Scenarios :
             (rains = 1 /\ water_flow.landscape = s[1] /\ op.hours = s[2])
               => SliceApproxEq(water_flow.water, s[3], LevelTolerance)

\* rain(2.0) on [4,7,5,8,6,9,7] has levelled the first five segments at about 8.4
C29_Witness ==
  /\ rains = 1
  /\ water_flow.landscape = <<4, 7, 5, 8, 6, 9, 7>>
  /\ op = [name |-> "rain", hours |-> 200]
  /\ \A i \in 1..5 : water_flow.water[i] > 0
  /\ water_flow.water[6] = 0

(* C30: edge cases: a WaterFlow of the empty landscape has no root sink,   *)
(* rain changes nothing of it and total_levels is empty; the root of a     *)
(* landscape whose segments are all equal has no children, and rain(hours) *)
(* leaves every segment with exactly hours of water.                       *)
C30_EdgeCases ==
  /\ [](water_flow.landscape = <<>> =>
          /\ water_flow.root_sink = <<>>
          /\ total_levels(water_flow) = <<>>)
  /\ [][(water_flow.landscape = <<>> /\ rains' = rains + 1) =>
          water_flow' = water_flow]_vars
  /\ []((water_flow.landscape # <<>> /\ AllEqual(water_flow.landscape)) =>
          /\ water_flow.root_sink[1].children = <<>>
          /\ rains >= 1 =>
               \A i \in 1..Len(water_flow.landscape) :
                 /\ water_flow.water[i] = op.hours
                 /\ total_levels(water_flow)[i]
                      = water_flow.landscape[i] * 100 + op.hours)

\* rain(0.5) on [2, 2, 2], twice
C30_Witness ==
  /\ rains = 2
  /\ water_flow.landscape = <<2, 2, 2>>
  /\ op = [name |-> "rain", hours |-> 50]
  /\ water_flow.water = <<50, 50, 50>>


---------------------------------------------------------------------------
(* The engine behind the simulation's levels (SpecSim).                    *)

\* WaterFlow(landscape).rain(t).total_levels() for the landscape and the time of a
\* simulation (its f64 levels as the engine's u32)
SinkHierarchyLevels(s) ==
  total_levels(rain(WaterFlow_new([i \in 1..Len(s.landscape) |-> s.landscape[i] \div 100]),
                    s.time))

(* C26: whatever steps and forwards brought the simulation to its time t,  *)
(* get_levels is WaterFlow(landscape).rain(t).total_levels(), up to the    *)
(* tests' tolerance.                                                       *)
C26_LevelsAreThoseOfTheSinkHierarchy ==
  pc = "recv" => SliceApproxEq(get_levels(simulation), SinkHierarchyLevels(simulation),
                               LevelTolerance)


---------------------------------------------------------------------------
(* The hierarchy of sinks (SpecFlow).                                      *)

RECURSIVE WellFormedSink(_, _)
\* the children of `sink`, and of every sink below it, are laid out as the hierarchy
\* promises
WellFormedSink(sink, landscape) ==
  LET children == sink.children
      n == Len(children)
  IN  /\ \A i \in 1..n :
           /\ sink.start <= children[i].start
           /\ children[i].start <= children[i].end
           /\ children[i].end <= sink.end
           /\ children[i].top = sink.bottom
           /\ children[i].bottom < children[i].top
           /\ WellFormedSink(children[i], landscape)
      /\ \A i \in 1..n : \A j \in 1..n : i < j => children[i].end < children[j].start
      /\ \A k \in sink.start..sink.end :
           landscape[k] < sink.bottom =>
             Cardinality({i \in 1..n : children[i].start <= k /\ k <= children[i].end}) = 1

(* C31: in the tree WaterFlow::new builds, the children of every sink lie  *)
(* in pairwise disjoint sub-ranges of the parent's range, from left to     *)
(* right, each with top = the parent's bottom and bottom < top; every      *)
(* segment below the parent's bottom is in exactly one child; the root     *)
(* spans the whole landscape and its bottom is the highest level.          *)
C31_SinkHierarchyStructure ==
  \A r \in 1..Len(water_flow.root_sink) :
    LET root == water_flow.root_sink[r]
        landscape == water_flow.landscape
    IN  /\ root.start = 1
        /\ root.end = Len(landscape)
        /\ \A k \in 1..Len(landscape) : landscape[k] <= root.bottom
        /\ \E k \in 1..Len(landscape) : landscape[k] = root.bottom
        /\ WellFormedSink(root, landscape)

\* the landscape of tests::water_flow_new_builds_the_hierarchy_of_sinks: three sinks
\* below the root, the first with a sink in a sink
C31_Witness ==
  /\ water_flow.landscape = <<6, 4, 5, 9, 9, 2, 6, 5, 9, 7>>
  /\ Len(water_flow.root_sink) = 1
  /\ Len(water_flow.root_sink[1].children) = 3
  /\ Len(water_flow.root_sink[1].children[1].children) = 1
  /\ Len(water_flow.root_sink[1].children[1].children[1].children) = 1
  /\ Len(water_flow.root_sink[1].children[2].children) = 2


RECURSIVE WeightsSumToOne(_)
\* below `sink` every set of siblings has weights in (0, 1] that sum to 1
WeightsSumToOne(sink) ==
  LET children == sink.children
      n == Len(children)
  IN  /\ n > 0 => fold_sum([i \in 1..n |-> children[i].weight]) = 10000
      /\ \A i \in 1..n :
           /\ children[i].weight > 0
           /\ children[i].weight <= 10000
           /\ WeightsSumToOne(children[i])

(* C32: for every sink that has children, the children's weights sum to 1. *)
C32_SiblingWeightsSumToOne ==
  \A r \in 1..Len(water_flow.root_sink) : WeightsSumToOne(water_flow.root_sink[r])

\* [0, 3, 2, 3, 0]: three sinks, each plain shared by the two sinks next to it
C32_Witness ==
  /\ water_flow.landscape = <<0, 3, 2, 3, 0>>
  /\ Len(water_flow.root_sink) = 1
  /\ LET children == water_flow.root_sink[1].children
     IN  /\ Len(children) = 3
         /\ children[1].weight = 3000
         /\ children[2].weight = 4000
         /\ children[3].weight = 3000


RECURSIVE WaterWithinCapacity(_)
\* `sink` and every sink below it hold 0 <= water <= capacity
WaterWithinCapacity(sink) ==
  /\ 0 <= sink.water
  /\ sink.water <= sink.capacity
  /\ \A i \in 1..Len(sink.children) : WaterWithinCapacity(sink.children[i])

(* C33: after rain(hours), hours >= 0, every sink holds 0 <= water <=      *)
(* capacity; the amount fill_sink_with_water reports as absorbed by the    *)
(* root is at most the amount poured (a sink whose children were spilled   *)
(* more than their excess would hold less than 0).                         *)
C33_SinkWaterWithinBounds ==
  \A r \in 1..Len(water_flow.root_sink) :
    /\ WaterWithinCapacity(water_flow.root_sink[r])
    /\ \A hours \in RainHours :
         LET amount == Len(water_flow.landscape) * hours
         IN  fill_sink_with_water(water_flow.root_sink[r], amount).filled <= amount


---------------------------------------------------------------------------
(* Ticks and commands (Spec).                                              *)

\* the Step ticks that are outstanding: delayed tasks that have not fired, and Step
\* events queued on the feedback channel
StepTicksOutstanding ==
  Cardinality({i \in 1..Len(delayed) : delayed[i].ev.type = "Step"})
    + Cardinality({i \in 1..Len(feedback) : feedback[i].ev.type = "Step"})

(* C34: in real-time mode at most one Step tick is outstanding, whatever   *)
(* the client sends.                                                       *)
C34_AtMostOneStepOutstanding ==
  ~is_fast_forward(simulation) => StepTicksOutstanding <= 1


(* C35: the ticks queued on the feedback channel stay within its capacity  *)
(* and the loop never waits in send_event for its own channel.             *)
C35_FeedbackNeverBlocksTheLoop ==
  /\ Len(feedback) <= FEEDBACK_CHANNEL_SIZE
  /\ pc # "parked"


\* the Progress of a simulation that was never started
IdleProgress == [running |-> FALSE, time |-> 0, levels |-> <<>>]

(* C36: before the first Start the simulation is as Simulation::new left   *)
(* it (time 0, not running, not fast_forward, no levels), and stays so     *)
(* whatever Pause, Resume, Forward, Step or ForwardStep is pulled; every   *)
(* Progress sent then has running = false, time = 0 and no levels; a Step  *)
(* or ForwardStep pulled then is dropped.                                  *)
C36_NothingRunsBeforeTheFirstStart ==
  /\ [](simulation = Simulation_new =>
          /\ get_time(simulation) = 0
          /\ ~is_running(simulation)
          /\ ~is_fast_forward(simulation)
          /\ get_levels(simulation) = <<>>)
  /\ [][(simulation = Simulation_new /\ ~(Pulled /\ cur'.ev.type = "Start")) =>
          simulation' = Simulation_new]_vars
  /\ [][(simulation = Simulation_new /\ LeavesPhase("progress")) =>
          outgoing' = Append(outgoing, IdleProgress)]_vars
  /\ [][(simulation = Simulation_new /\ Pulled /\ cur'.ev.type \in {"Step", "ForwardStep"}) =>
          NothingHappens]_vars

\* no Start yet: a Resume and a Forward were answered, and the Step the Resume enqueued
\* has just been pulled and dropped
C36_Witness ==
  /\ simulation = Simulation_new
  /\ lastCommand = "Forward"
  /\ cur.ev.type = "Step"
  /\ cur.src = "feedback"
  /\ pc = "recv"
  /\ sent = 2


(* C37: finished is absorbing until the next Start: while time >= hours,   *)
(* a step of the program that is not the pull of a Start leaves time and   *)
(* levels as they are and does not set running to true; time decreases     *)
(* only when a Start is pulled, which sets it to 0.                        *)
C37_FinishedIsAbsorbing ==
  /\ [][(is_finished(simulation) /\ ~(Pulled /\ cur'.ev.type = "Start")) =>
          /\ get_time(simulation') = get_time(simulation)
          /\ get_levels(simulation') = get_levels(simulation)
          /\ is_running(simulation') => is_running(simulation)]_vars
  /\ [][get_time(simulation') < get_time(simulation) =>
          /\ Pulled
          /\ cur'.ev.type = "Start"
          /\ get_time(simulation') = 0]_vars

\* a run of one tick is over; a Resume was answered and its Step has been pulled
C37_Witness ==
  /\ is_finished(simulation)
  /\ get_time(simulation) > 0
  /\ ~is_running(simulation)
  /\ lastCommand = "Resume"
  /\ cur.ev.type = "Step"
  /\ cur.src = "feedback"
  /\ pc = "recv"


(* C38: Step and ForwardStep take effect only when they come from the      *)
(* feedback channel: when the loop pulls a Step or a ForwardStep frame     *)
(* that the client sent on the inbound stream, the simulation does not     *)
(* advance: time, levels and the running flag stay as they are.            *)
C38_ClientTicksAreIgnored ==
  [][(PulledIncoming /\ cur'.ev.type \in {"Step", "ForwardStep"}) =>
       /\ get_time(simulation') = get_time(simulation)
       /\ get_levels(simulation') = get_levels(simulation)
       /\ is_running(simulation') = is_running(simulation)]_vars

=============================================================================
